---- MODULE Spec2Model ----
(***************************************************************************)
(* A model of ornate: the decorator-driven dependency injector, module     *)
(* tree builder, service lifecycle and per-request middleware chain of     *)
(* src/src/app.ts.  The file holds two variants of the App class, one on   *)
(* koa (lines 1-1059) and one on express (lines 1230-2520); the variable   *)
(* `variant` says which one a behaviour runs.                              *)
(***************************************************************************)
EXTENDS Integers, Sequences, FiniteSets, TLC

VARIABLES
    variant,   \* "koa" or "express": which App class is running
    cfg,       \* what the decorators put in the registry, and the App params
    app,       \* the App object: injector caches, instances, module list
    ret,       \* what the last call into the injector returned
    life,      \* run()/listen()/stop(): position, log, promises, server
    req,       \* one HTTP request travelling down an action's handler chain
    reg        \* the metadata the decorators have defined so far (AppRegistry)

vars == <<variant, cfg, app, ret, life, req, reg>>

Variants == {"koa", "express"}

\* JavaScript's undefined
Undef == "undefined"
None == "none"

-----------------------------------------------------------------------------
(* The classes of the application under construction.                      *)

ModuleClasses == {"M1", "M2"}
ServiceClasses == {"S1", "S2", "S3"}
ControllerClasses == {"K1"}
MigrationClasses == {"G1", "G2"}
Classes == ModuleClasses \cup ServiceClasses \cup ControllerClasses \cup MigrationClasses

\* the names @Migration can give a migration class
MigrationNames == {"n1", "n2"}

\* class S3 extends S1; the others extend nothing
SuperOf(cls) == IF cls = "S3" THEN "S1" ELSE None

\* `x instanceof target` for an instance x of class cls
IsInstanceOf(cls, target) == cls = target \/ SuperOf(cls) = target

\* sequences over S of length 0..n
SeqsUpTo(S, n) == UNION {[1..k -> S] : k \in 0..n}

\* A recursion deeper than the number of classes repeats a class: the
\* JavaScript recursion then never ends and the engine throws RangeError.
MaxDepth == Cardinality(Classes) + 1

-----------------------------------------------------------------------------
(* The dependency injector.  An instance is its position in app.instances; *)
(* 0 is undefined.                                                         *)

EmptyApp ==
    [ instances |-> <<>>,                            \* every `new` so far
      services  |-> [s \in ServiceClasses |-> 0],    \* _services / SERVICES
      moduleMap |-> [m \in ModuleClasses |-> 0],     \* MODULES (express)
      mobj      |-> <<>>,                            \* the module objects
      modules   |-> <<>>,                            \* _modules: indices of mobj
      migrations |-> [n \in MigrationNames |-> 0],   \* _migrations / MIGRATIONS
      registered |-> <<>>,                           \* every _register... call so far
      router    |-> <<>>,                            \* the routes given to the router
      error     |-> None,                            \* thrown by the constructor
      built     |-> FALSE ]                          \* the constructor returned

\* _resolveInjectables: the declared injectable resources of a class, in push
\* order.  In the koa variant the INJECTOR case falls through to HTTP_SERVER.
ResolveInjectables(c, v, target) ==
    LET meta == c.injectables[target]
        One(md) == IF v = "koa" /\ md.type = "INJECTOR"
                   THEN << [index |-> md.index, service |-> "injector"],
                           [index |-> md.index, service |-> "server"] >>
                   ELSE IF md.type = "HTTP_SERVER"
                        THEN << [index |-> md.index, service |-> "server"] >>
                        ELSE <<>>
        F[i \in 0..Len(meta)] == IF i = 0 THEN <<>> ELSE F[i - 1] \o One(meta[i])
    IN F[Len(meta)]

\* injectables.find(i => i.index === index)
FindInjectable(injectables, index) ==
    LET hits == {k \in 1..Len(injectables) : injectables[k].index = index}
    IN IF hits = {} THEN None
       ELSE injectables[CHOOSE k \in hits : \A j \in hits : k <= j].service

\* moduleInstance.providers.find(p => p.provides === f), express only
FindProvider(a, m, f) ==
    LET ps == a.mobj[m].providers
        hits == {k \in 1..Len(ps) : ps[k].provides = f}
    IN IF hits = {} THEN 0
       ELSE ps[CHOOSE k \in hits : \A j \in hits : k <= j].service

\* a constructor argument: a service instance, or the server or the injector
Arg(inst, resource) == [inst |-> inst, resource |-> resource]

\* F applied to the value of x: x is computed once, then named
Bind(x, F(_)) == CHOOSE z \in {F(b) : b \in {x}} : TRUE

\* an exception is on its way out of the constructor
Failed(a) == a.error # None
Throw(a, err) == [a EXCEPT !.error = err]

RECURSIVE NewInstance(_, _, _, _, _, _)
RECURSIVE Inject(_, _, _, _, _, _, _, _, _)
RECURSIVE NewService(_, _, _, _, _, _)

\* this._services.set(target, instance); return instance
CacheInstance(r, target) ==
    IF Failed(r.app) THEN r
    ELSE [app |-> [r.app EXCEPT !.services[target] = r.inst], inst |-> r.inst]

\* An injector that never looks into its cache.
NewServiceUncached(a, c, v, m, target, fuel) ==
    IF Failed(a) THEN [app |-> a, inst |-> 0]
    ELSE Bind(NewInstance(a, c, v, m, target, fuel), LAMBDA r : CacheInstance(r, target))

\* AppInjector.newService (koa), App._getServiceInstance (express)
NewService(a, c, v, m, target, fuel) ==
    IF Failed(a) THEN [app |-> a, inst |-> 0]
    ELSE IF a.services[target] # 0 THEN [app |-> a, inst |-> a.services[target]]
    ELSE Bind(NewInstance(a, c, v, m, target, fuel), LAMBDA r : CacheInstance(r, target))

\* new constructor(), the arguments bound
Instantiate(r, target) ==
    IF Failed(r.app) THEN [app |-> r.app, inst |-> 0]
    ELSE [app |-> [r.app EXCEPT !.instances =
                     Append(@, [cls |-> target, args |-> r.args, route |-> Undef,
                                count |-> 0])],
          inst |-> Len(r.app.instances) + 1]

\* _newInstance: the constructor's parameter types, injected, then new
NewInstance(a, c, v, m, target, fuel) ==
    IF fuel = 0 THEN [app |-> Throw(a, "RangeError"), inst |-> 0]
    ELSE Bind(Inject(a, c, v, m, target, c.paramtypes[target], 1, <<>>, fuel - 1),
              LAMBDA r : Instantiate(r, target))

AsArg(r) == [app |-> r.app, arg |-> Arg(r.inst, None)]

\* the callback of params.map in _inject: a provider of the module (express),
\* else a declared injectable at this index, else the service of that class
InjectOne(a, c, v, m, target, f, i, fuel) ==
    IF v = "express" /\ FindProvider(a, m, f) # 0
    THEN [app |-> a, arg |-> Arg(FindProvider(a, m, f), None)]
    ELSE IF FindInjectable(ResolveInjectables(c, v, target), i) # None
    THEN [app |-> a, arg |-> Arg(0, FindInjectable(ResolveInjectables(c, v, target), i))]
    ELSE Bind(NewService(a, c, v, m, f, fuel), LAMBDA r : AsArg(r))

InjectNext(r, c, v, m, target, types, i, acc, fuel) ==
    Inject(r.app, c, v, m, target, types, i + 1, Append(acc, r.arg), fuel)

\* _inject: the constructor arguments, parameter by parameter
Inject(a, c, v, m, target, types, i, acc, fuel) ==
    IF Failed(a) \/ i > Len(types) THEN [app |-> a, args |-> acc]
    ELSE Bind(InjectOne(a, c, v, m, target, types[i], i, fuel),
              LAMBDA r : InjectNext(r, c, v, m, target, types, i, acc, fuel))

\* getService: the cached instance, or 0 where the code throws "Service not found"
GetService(a, target) == a.services[target]

-----------------------------------------------------------------------------
(* The route binder: what _registerController and _registerAction give to  *)
(* the router for every action of a controller.                            *)

\* IActionMetadata: authentication, authorization (policies in express),
\* generics before and after, args, resolvers, validators
ActionMetadata(nAuth, nPolicy, nBefore, nAfter, args, resolvers, nValidators) ==
    [ authentication |-> nAuth, authorization |-> nPolicy, before |-> nBefore,
      after |-> nAfter, args |-> args, resolvers |-> resolvers,
      validators |-> nValidators ]

Handlers(fn, n) == [k \in 1..n |-> [fn |-> fn, k |-> k]]

\* A handlers array without the permission check of the express variant.
BeforeActionUnchecked(v, m) ==
    Handlers("initialise", 1) \o Handlers("authentication", m.authentication)
       \o (IF v = "koa" THEN <<>> ELSE Handlers("resolve", Len(m.resolvers)))
       \o Handlers("authorization", m.authorization) \o Handlers("before", m.before)

\* the handlers array up to the action handler
BeforeAction(v, m) ==
    IF v = "koa"
    THEN Handlers("initialise", 1) \o Handlers("authentication", m.authentication)
           \o Handlers("authorization", m.authorization) \o Handlers("before", m.before)
    ELSE Handlers("initialise", 1) \o Handlers("authentication", m.authentication)
           \o Handlers("resolve", Len(m.resolvers)) \o Handlers("checkPermissions", 1)
           \o Handlers("authorization", m.authorization) \o Handlers("before", m.before)

\* the steps the action handler awaits in turn: in koa argument extraction,
\* each resolver, each validator, then the controller's method
ActionSteps(v, m) ==
    IF v = "koa"
    THEN Handlers("action.args", 1) \o Handlers("action.resolver", Len(m.resolvers))
           \o Handlers("action.validator", m.validators) \o Handlers("action.handler", 1)
    ELSE Handlers("action.handler", 1)

\* _registerAction: the handlers array as the router receives it
HandlersArray(v, m) ==
    BeforeAction(v, m) \o Handlers("action", 1) \o Handlers("after", m.after)

\* _registerAction: the handlers array, the action handler laid out as its steps
RegisterAction(v, m) ==
    BeforeAction(v, m) \o ActionSteps(v, m) \o Handlers("after", m.after)

\* the lists of an action's metadata that name middlewares
Kinds == {"authentication", "authorization", "before", "after", "resolvers", "validators"}

\* the lists _registerAction looks up while it builds the array, in the order
\* of its _bind calls; koa leaves resolvers and validators to the request
BindOrder(v) ==
    IF v = "koa" THEN <<"authentication", "authorization", "before", "after">>
    ELSE <<"authentication", "resolvers", "authorization", "before", "after">>

\* ERequestMethod, and the cases of the switch in _registerAction
RequestMethods == {"GET", "POST", "PUT", "DELETE", "OPTIONS", "HEAD", "PATCH"}
RoutedMethods == {"GET", "PUT", "POST", "DELETE"}

\* the list as the _bind function walks it: generics are filtered by order
\* and reversed
Reverse(list) == [k \in 1..Len(list) |-> list[Len(list) + 1 - k]]
Walked(list, kind) == IF kind \in {"before", "after"} THEN Reverse(list) ELSE list

Keep(r, kept, e) == [app |-> r.app, kept |-> Append(kept, e)]

\* the callback of .map in a _bind function: the registry lookup by (service,
\* name); koa throws when it finds nothing, express warns and leaves the entry
\* out, and resolves the middleware's service when it finds it
BindEntry(acc, c, v, m, e) ==
    IF Failed(acc.app) THEN acc
    ELSE IF e.name \notin c.registry
    THEN IF v = "koa" THEN [acc EXCEPT !.app = Throw(@, "Error")] ELSE acc
    ELSE IF v = "koa" THEN [acc EXCEPT !.kept = Append(@, e)]
    ELSE Bind(NewService(acc.app, c, v, m, e.service, MaxDepth),
              LAMBDA r : Keep(r, acc.kept, e))

RECURSIVE BindEntries(_, _, _, _, _, _)
BindEntries(acc, c, v, m, list, i) ==
    IF i > Len(list) THEN acc
    ELSE Bind(BindEntry(acc, c, v, m, list[i]),
              LAMBDA r : BindEntries(r, c, v, m, list, i + 1))

Bound(r, acc, kind) == [app |-> r.app, bound |-> [acc.bound EXCEPT ![kind] = r.kept]]

\* one _bind call of _registerAction
BindKind(acc, c, v, m, kind) ==
    Bind(BindEntries([app |-> acc.app, kept |-> <<>>], c, v, m,
                     Walked(acc.bound[kind], kind), 1),
         LAMBDA r : Bound(r, acc, kind))

RECURSIVE BindHandlers(_, _, _, _, _, _)
BindHandlers(acc, c, v, m, order, j) ==
    IF j > Len(order) THEN acc
    ELSE Bind(BindKind(acc, c, v, m, order[j]),
              LAMBDA r : BindHandlers(r, c, v, m, order, j + 1))

\* the metadata of the handlers that were bound
BoundMetadata(v, b) ==
    ActionMetadata(Len(b["authentication"]), Len(b["authorization"]), Len(b["before"]),
                   Len(b["after"]), <<>>, b["resolvers"],
                   IF v = "koa" THEN Len(b["validators"]) ELSE 0)

\* actionRoute: controllerRoute + "/" + route, or controllerRoute for route ""
ActionRoute(controllerRoute, decl) ==
    IF decl.route # "" THEN controllerRoute \o "/" \o decl.route ELSE controllerRoute

\* the switch on actionMetadata.method: router.get / put / post / delete, or
\* "Unhandled request method"
RouterRegister(r, v, controller, controllerRoute, decl) ==
    IF Failed(r.app) THEN r.app
    ELSE IF decl.method \notin RoutedMethods THEN Throw(r.app, "Error")
    ELSE [r.app EXCEPT !.router =
             Append(@, [ method |-> decl.method,
                         route |-> ActionRoute(controllerRoute, decl),
                         controller |-> controller,
                         decl |-> decl,
                         handlers |-> HandlersArray(v, BoundMetadata(v, r.bound)) ])]

\* _registerAction of one action of a controller
RegisterActionOf(a, c, v, m, controller, controllerRoute, decl) ==
    IF Failed(a) THEN a
    ELSE Bind(BindHandlers([app |-> a, bound |-> [k \in Kinds |-> decl[k]]], c, v, m,
                           BindOrder(v), 1),
              LAMBDA r : RouterRegister(r, v, controller, controllerRoute, decl))

RECURSIVE RegisterActions(_, _, _, _, _, _, _, _)
\* for (const action of controllerMetadata.actions) this._registerAction(...)
RegisterActions(a, c, v, m, controller, controllerRoute, actions, i) ==
    IF i > Len(actions) THEN a
    ELSE Bind(RegisterActionOf(a, c, v, m, controller, controllerRoute, actions[i]),
              LAMBDA b : RegisterActions(b, c, v, m, controller, controllerRoute,
                                         actions, i + 1))

\* controllerInstance.route: moduleRoute + "/" + controllerRoute, the latter
\* "" for a controller without a route
ControllerRoute(moduleRoute, metadata) ==
    moduleRoute \o "/" \o (IF metadata.route # Undef THEN metadata.route ELSE "")

-----------------------------------------------------------------------------
(* The module tree builder.  A module object is its position in app.mobj.  *)

\* moduleInstance.services.find(service => service instanceof targetService)
ExistingService(a, m, target) ==
    LET svcs == a.mobj[m].services
        hits == {k \in 1..Len(svcs) : IsInstanceOf(a.instances[svcs[k]].cls, target)}
    IN IF hits = {} THEN 0 ELSE svcs[CHOOSE k \in hits : \A j \in hits : k <= j]

\* moduleInstance.services.push(serviceInstance)
PushService(r, m) ==
    IF Failed(r.app) THEN r
    ELSE [app |-> [r.app EXCEPT !.mobj[m].services = Append(@, r.inst)], inst |-> r.inst]

\* express _registerService: `serviceMetadata.properties` is read after the
\* instance was resolved; the metadata of a class without @Service is undefined
InjectProperties(r, c, v, target) ==
    IF ~Failed(r.app) /\ v = "express" /\ target \in c.undecorated
    THEN [app |-> Throw(r.app, "TypeError"), inst |-> 0]
    ELSE r

\* _registerService: once per module and class (instanceof), else resolve and push
RegisterService(a, c, v, m, target) ==
    IF Failed(a) THEN [app |-> a, inst |-> 0]
    ELSE IF ExistingService(a, m, target) # 0
    THEN [app |-> a, inst |-> ExistingService(a, m, target)]
    ELSE Bind(NewService(a, c, v, m, target, MaxDepth),
              LAMBDA r : PushService(InjectProperties(r, c, v, target), m))

\* moduleInstance.providers.push(providerInstance)
PushProvider(r, m, provider) ==
    IF Failed(r.app) THEN r.app
    ELSE [r.app EXCEPT !.mobj[m].providers =
             Append(@, [provides |-> provider.provides, type |-> provider.service,
                        service |-> r.inst])]

\* _registerProvider: koa records {provides, type}; express registers the
\* providing class as a service of the module and records its instance
RegisterProvider(a, c, v, m, provider) ==
    IF v = "koa" THEN PushProvider([app |-> a, inst |-> 0], m, provider)
    ELSE Bind(RegisterService(a, c, v, m, provider.service),
              LAMBDA r : PushProvider(r, m, provider))

\* moduleInstance.controllers.push(controllerInstance)
PushController(r, m) ==
    IF Failed(r.app) THEN r.app
    ELSE [r.app EXCEPT !.mobj[m].controllers = Append(@, r.inst)]

\* controllerInstance.route = ..., then every action of the controller
RouteController(r, c, v, m, target) ==
    IF Failed(r.app) THEN r
    ELSE [ app |-> RegisterActions(
                     [r.app EXCEPT !.instances[r.inst].route =
                         ControllerRoute(r.app.mobj[m].route, c.ctrl[target])],
                     c, v, m, r.inst,
                     ControllerRoute(r.app.mobj[m].route, c.ctrl[target]),
                     c.ctrl[target].actions, 1),
           inst |-> r.inst ]

\* _registerController: a fresh instance each time, its route, its actions
RegisterController(a, c, v, m, target) ==
    IF Failed(a) THEN a
    ELSE Bind(NewInstance(a, c, v, m, target, MaxDepth),
              LAMBDA r : Bind(RouteController(r, c, v, m, target),
                              LAMBDA r2 : PushController(r2, m)))

\* moduleInstance.migrations.push(migrationInstance), the instance stored
\* under the migration's name
PushMigration(r, m, name) ==
    IF Failed(r.app) THEN r.app
    ELSE [r.app EXCEPT !.migrations[name] = r.inst,
                       !.mobj[m].migrations = Append(@, r.inst)]

\* _registerMigration.  koa: newMigration constructs and sets the name's
\* entry; express: a name that is already taken is logged and skipped
RegisterMigration(a, c, v, m, target) ==
    IF Failed(a) THEN a
    ELSE IF v = "express" /\ a.migrations[c.migration[target]] # 0 THEN a
    ELSE Bind(NewInstance(a, c, v, m, target, MaxDepth),
              LAMBDA r : PushMigration(r, m, c.migration[target]))

\* the call is noted: which module object, which list
Noted(a, m, kind) ==
    IF Failed(a) THEN a
    ELSE [a EXCEPT !.registered = Append(@, [module |-> a.mobj[m].type, kind |-> kind])]

\* one entry of params.services, providers, migrations or controllers
RegisterOne(a, c, v, m, kind, item) ==
    CASE kind = "services" -> RegisterService(Noted(a, m, kind), c, v, m, item).app
      [] kind = "providers" -> RegisterProvider(Noted(a, m, kind), c, v, m, item)
      [] kind = "migrations" -> RegisterMigration(Noted(a, m, kind), c, v, m, item)
      [] kind = "controllers" -> RegisterController(Noted(a, m, kind), c, v, m, item)

RECURSIVE RegisterAll(_, _, _, _, _, _, _)
\* for (const target of params[kind]) this._register...(moduleInstance, target)
RegisterAll(a, c, v, m, kind, list, i) ==
    IF i > Len(list) THEN a
    ELSE Bind(RegisterOne(a, c, v, m, kind, list[i]),
              LAMBDA b : RegisterAll(b, c, v, m, kind, list, i + 1))

\* the order of the loops of _registerModule after the submodules: koa takes
\* the services before the providers, express the providers before the services
DeclarationOrder(v) ==
    IF v = "koa" THEN <<"services", "providers", "migrations", "controllers">>
    ELSE <<"providers", "services", "migrations", "controllers">>

RECURSIVE RegisterDeclarations(_, _, _, _, _, _, _)
RegisterDeclarations(a, c, v, m, params, order, j) ==
    IF j > Len(order) THEN a
    ELSE Bind(RegisterAll(a, c, v, m, order[j], params[order[j]], 1),
              LAMBDA b : RegisterDeclarations(b, c, v, m, params, order, j + 1))

\* the module object: a new one in koa, the one MODULES holds in express
ModuleObject(a, v, target) ==
    IF v = "express" /\ a.moduleMap[target] # 0 THEN a.moduleMap[target]
    ELSE Len(a.mobj) + 1

\* A module route that replaces the parent's prefix instead of extending it.
ModuleRouteReplacing(params, parentRoute) ==
    IF params.route # Undef THEN "/" \o params.route ELSE parentRoute

\* moduleRoute: parentRoute + "/" + route, or parentRoute without a route
ModuleRoute(params, parentRoute) ==
    IF params.route # Undef THEN parentRoute \o "/" \o params.route ELSE parentRoute

\* the head of _registerModule: the object, its route, its collections emptied
InitModule(a, c, v, target, parentRoute) ==
    [a EXCEPT !.mobj = [k \in 1..(IF ModuleObject(a, v, target) > Len(a.mobj)
                                  THEN Len(a.mobj) + 1 ELSE Len(a.mobj)) |->
                          IF k = ModuleObject(a, v, target)
                          THEN [type |-> target,
                                route |-> ModuleRoute(c.mods[target], parentRoute),
                                services |-> <<>>, migrations |-> <<>>,
                                providers |-> <<>>, controllers |-> <<>>]
                          ELSE a.mobj[k]],
              !.moduleMap[target] = IF v = "express" THEN ModuleObject(a, v, target) ELSE @]

\* A registration that puts the module in front of those registered before it.
PushModuleFront(a, m) == IF Failed(a) THEN a ELSE [a EXCEPT !.modules = <<m>> \o @]

\* this._modules.push(moduleInstance)
PushModule(a, m) == IF Failed(a) THEN a ELSE [a EXCEPT !.modules = Append(@, m)]

RECURSIVE RegisterModule(_, _, _, _, _, _)
RECURSIVE RegisterModules(_, _, _, _, _, _, _)

\* _registerModule: the submodules first, then the module's own declarations,
\* and last its push onto _modules
RegisterModule(a, c, v, target, parentRoute, fuel) ==
    IF Failed(a) THEN a
    ELSE IF fuel = 0 THEN Throw(a, "RangeError")
    ELSE IF ~c.mods[target].given THEN Throw(a, "TypeError")
    ELSE Bind(RegisterModules(InitModule(a, c, v, target, parentRoute), c, v,
                              c.mods[target].modules, 1,
                              ModuleRoute(c.mods[target], parentRoute), fuel - 1),
              LAMBDA a2 : Bind(RegisterDeclarations(a2, c, v, ModuleObject(a, v, target),
                                                    c.mods[target], DeclarationOrder(v), 1),
                               LAMBDA a3 : PushModule(a3, ModuleObject(a, v, target))))

\* for (const targetModule of modules) this._registerModule(targetModule, parent)
RegisterModules(a, c, v, list, i, parentRoute, fuel) ==
    IF i > Len(list) THEN a
    ELSE Bind(RegisterModule(a, c, v, list[i], parentRoute, fuel),
              LAMBDA b : RegisterModules(b, c, v, list, i + 1, parentRoute, fuel))

\* the constructor returned normally
Built(a) == [a EXCEPT !.built = ~Failed(a)]

\* new App(params): every root module registered in turn
NewApp(c, v) ==
    Bind(RegisterModules(EmptyApp, c, v, c.roots, 1, "", MaxDepth), LAMBDA a : Built(a))

-----------------------------------------------------------------------------
(* Configurations: the parameters of @Module, the constructor parameter    *)
(* types the compiler emits, and the hooks the service classes define.     *)

MaxRoots == 2    \* root modules handed to new App
MaxList == 2     \* entries of a module's services and initialize lists

NoDeps == [cl \in Classes |-> <<>>]

\* given: @Module was called with a parameters object
ModuleParams(route, modules, services, initialize, controllers) ==
    [ given |-> TRUE, route |-> route, modules |-> modules, services |-> services,
      initialize |-> initialize, providers |-> <<>>, migrations |-> <<>>,
      controllers |-> controllers ]

\* @Module({}) and @Module(): in the latter IModuleMetadata.params is undefined
EmptyParams == ModuleParams(Undef, <<>>, <<>>, <<>>, <<>>)
NoParams == [EmptyParams EXCEPT !.given = FALSE]

\* IControllerMetadata: the route of @Controller and the actions of the class
ControllerMetadata(route, actions) == [route |-> route, actions |-> actions]

\* constructor parameter types, and the @Inject markers on them
DepChoices ==
    { [ paramtypes |-> NoDeps, injectables |-> NoDeps ],
      [ paramtypes |-> [NoDeps EXCEPT !["S2"] = <<"S1">>, !["K1"] = <<"S2">>],
        injectables |-> NoDeps ],
      [ paramtypes |-> [NoDeps EXCEPT !["S2"] = <<"S1", "S3">>, !["S3"] = <<"S1">>,
                                      !["K1"] = <<"S1", "S2">>],
        injectables |-> [NoDeps EXCEPT !["K1"] = << [type |-> "HTTP_SERVER", index |-> 2] >>] ],
      [ paramtypes |-> [NoDeps EXCEPT !["S1"] = <<"S2">>, !["S2"] = <<"S1">>],
        injectables |-> NoDeps ] }

BuildConfigs ==
    { [ roots |-> r,
        mods |-> [m \in ModuleClasses |->
                    IF m = "M1" THEN ModuleParams("a", sub, s1, <<>>, k1)
                    ELSE ModuleParams(Undef, <<>>, s2, <<>>, <<>>)],
        paramtypes |-> d.paramtypes, injectables |-> d.injectables,
        ctrl |-> [k \in ControllerClasses |-> ControllerMetadata("k", <<>>)],
        registry |-> {}, undecorated |-> {},
        onInit |-> {}, onDestroy |-> {} ] :
      r \in SeqsUpTo(ModuleClasses, MaxRoots) \ {<<>>},
      sub \in {<<>>, <<"M2">>},
      s1 \in SeqsUpTo(ServiceClasses, MaxList),
      s2 \in {<<>>, <<"S2", "S1">>},
      k1 \in {<<>>, <<"K1">>, <<"K1", "K1">>},
      d \in DepChoices }

-----------------------------------------------------------------------------
(* Construction and resolution.                                            *)

NoRet == [op |-> None, target |-> None, inst |-> 0]
NoLife == [op |-> None]
NoReq == [stage |-> None]
NoReg == [applied |-> 0]

InitBuild ==
    /\ variant \in Variants
    /\ cfg \in BuildConfigs
    /\ app = EmptyApp
    /\ ret = NoRet
    /\ life = NoLife
    /\ req = NoReq
    /\ reg = NoReg

\* new App(params)
Construct ==
    /\ ~app.built /\ app.error = None
    /\ app' = NewApp(cfg, variant)
    /\ UNCHANGED <<variant, cfg, ret, life, req, reg>>

\* a later resolution of a service class: injector.newService(target) in koa,
\* _getServiceInstance(moduleInstance, target) in express
Resolve(target) ==
    /\ app.built
    /\ \E r \in {NewService(app, cfg, variant, app.modules[1], target, MaxDepth)} :
          /\ ~Failed(r.app)
          /\ app' = r.app
          /\ ret' = [op |-> "newService", target |-> target, inst |-> r.inst]
    /\ UNCHANGED <<variant, cfg, life, req, reg>>

\* app.getService(target) / injector.getService(target)
Lookup(target) ==
    /\ app.built
    /\ ret' = [op |-> "getService", target |-> target, inst |-> GetService(app, target)]
    /\ UNCHANGED <<variant, cfg, app, life, req, reg>>

NextBuild ==
    \/ Construct
    \/ \E target \in ServiceClasses : Resolve(target)
    \/ \E target \in ServiceClasses : Lookup(target)

SpecBuild == InitBuild /\ [][NextBuild]_vars

\* the instances of a class among everything constructed so far
InstancesOf(cls) == {i \in 1..Len(app.instances) : app.instances[i].cls = cls}

\* every constructor argument that was resolved as a service is the instance
\* the service cache holds for the parameter's declared class
InjectedFromCache ==
    \A i \in 1..Len(app.instances) :
        LET x == app.instances[i]
            types == cfg.paramtypes[x.cls]
        IN \A k \in 1..Len(x.args) :
              x.args[k].resource = None =>
                 /\ x.args[k].inst # 0
                 /\ x.args[k].inst = GetService(app, types[k])
                 /\ app.instances[x.args[k].inst].cls = types[k]

RegisteredModules == {app.mobj[app.modules[i]].type : i \in 1..Len(app.modules)}
TimesRegistered(m) ==
    Cardinality({i \in 1..Len(app.modules) : app.mobj[app.modules[i]].type = m})

\* C11: after construction no module class occurs twice in app.modules, even
\* when it is referenced from several modules lists, and its controllers
\* were registered once: every controller class has as many instances as the
\* registered module classes declare.
C11_ModuleOnce ==
    app.built =>
       /\ \A m \in ModuleClasses : TimesRegistered(m) <= 1
       /\ \A k \in ControllerClasses :
             Cardinality(InstancesOf(k)) <=
                Len(cfg.mods["M1"].controllers) + Len(cfg.mods["M2"].controllers)

-----------------------------------------------------------------------------
(* Construction of an App whose controllers have actions: the routes and   *)
(* the handler chains the router receives.                                 *)

MaxActions == 2    \* actions of the controller class
MaxAuth == 2       \* authentication middlewares declared on an action
MaxHooks == 1      \* middlewares in each of an action's other lists

\* an entry of an action's authentication / authorization / generics /
\* validators list: the middleware's service class and its name
Entry(name) == [service |-> "S1", name |-> name]
\* an entry of the resolvers list, bound to argument 0
ResolveEntry(name) == [service |-> "S1", name |-> name, index |-> 0, required |-> TRUE]

\* the middleware names the service class defines; "x" is defined nowhere
Registry == {"m", "r"}
EntryLists(n) == SeqsUpTo({Entry("m"), Entry("x")}, n)
ResolveLists == SeqsUpTo({ResolveEntry("r"), ResolveEntry("x")}, MaxHooks)

\* IActionMetadata as the decorators of one controller method leave it
ActionDecl(method, route, authentication, authorization, before, after, resolvers, validators) ==
    [ method |-> method, route |-> route, authentication |-> authentication,
      authorization |-> authorization, before |-> before, after |-> after,
      resolvers |-> resolvers, validators |-> validators ]

PlainAction(method, route) == ActionDecl(method, route, <<>>, <<>>, <<>>, <<>>, <<>>, <<>>)

\* every combination of middleware lists, on GET :id
ChainDecls ==
    { ActionDecl("GET", ":id", au, az, be, af, re, va) :
        au \in EntryLists(MaxAuth), az \in EntryLists(MaxHooks),
        be \in EntryLists(MaxHooks), af \in EntryLists(MaxHooks),
        re \in ResolveLists, va \in EntryLists(MaxHooks) }

\* every method, with and without a route of its own
RouteDecls == {PlainAction(me, ro) : me \in RequestMethods, ro \in {"", ":id"}}

RouteTrees ==
    { [ roots |-> r,
        mods |-> [m \in ModuleClasses |->
                    IF m = "M1" THEN ModuleParams(r1, sub, <<"S1">>, <<>>, k1)
                    ELSE ModuleParams(r2, <<>>, <<>>, <<>>, k2)] ] :
      r \in {<<"M1">>, <<"M2">>, <<"M1", "M2">>},
      sub \in {<<>>, <<"M2">>},
      r1 \in {"api", Undef}, r2 \in {"v1", Undef},
      k1 \in {<<>>, <<"K1">>}, k2 \in {<<>>, <<"K1">>} }

\* the tree of the example: module "api", controller "users"
ApiTree ==
    [ roots |-> <<"M1">>,
      mods |-> [m \in ModuleClasses |->
                  IF m = "M1" THEN ModuleParams("api", <<>>, <<"S1">>, <<>>, <<"K1">>)
                  ELSE ModuleParams(Undef, <<>>, <<>>, <<>>, <<>>)] ]

RouteConfig(tree, route, actions) ==
    [ roots |-> tree.roots, mods |-> tree.mods,
      paramtypes |-> NoDeps, injectables |-> NoDeps,
      ctrl |-> [k \in ControllerClasses |-> ControllerMetadata(route, actions)],
      registry |-> Registry, undecorated |-> {}, onInit |-> {}, onDestroy |-> {} ]

RouteConfigs ==
    { RouteConfig(t, ro, ac) :
        t \in RouteTrees, ro \in {"users", Undef},
        ac \in {<<>>, <<PlainAction("GET", ":id")>>,
                <<PlainAction("GET", ""), PlainAction("POST", ":id")>>} }
      \cup { RouteConfig(ApiTree, "users", ac) :
               ac \in SeqsUpTo(RouteDecls, MaxActions) }
      \cup { RouteConfig(ApiTree, "users", <<d>>) : d \in ChainDecls }

InitRoute ==
    /\ variant \in Variants
    /\ cfg \in RouteConfigs
    /\ app = EmptyApp
    /\ ret = NoRet
    /\ life = NoLife
    /\ req = NoReq
    /\ reg = NoReg

NextRoute == Construct

SpecRoute == InitRoute /\ [][NextRoute]_vars

Range(list) == {list[i] : i \in 1..Len(list)}

\* the route the composition rule gives a module under a parent's route
ComposedRoute(parentRoute, own) ==
    IF own # Undef THEN parentRoute \o "/" \o own ELSE parentRoute

RECURSIVE RoutesOfModule(_, _)
\* the routes of a module class, one for every way the tree refers to it
RoutesOfModule(m, fuel) ==
    IF fuel = 0 THEN {}
    ELSE (IF m \in Range(cfg.roots) THEN {ComposedRoute("", cfg.mods[m].route)} ELSE {})
         \cup UNION { {ComposedRoute(pr, cfg.mods[m].route) : pr \in RoutesOfModule(p, fuel - 1)} :
                      p \in {q \in ModuleClasses : m \in Range(cfg.mods[q].modules)} }

\* the routes of a controller class: under every module declaring it
RoutesOfController(k) ==
    UNION { {mr \o "/" \o (IF cfg.ctrl[k].route # Undef THEN cfg.ctrl[k].route ELSE "") :
                mr \in RoutesOfModule(m, MaxDepth)} :
            m \in {q \in ModuleClasses : k \in Range(cfg.mods[q].controllers)} }

\* where the rule puts an action of a controller at route cr
RouteOfAction(cr, decl) == IF decl.route = "" THEN cr ELSE cr \o "/" \o decl.route

\* C12: after construction every module's route is its parent's route, with
\* "/" and its own route appended when it has one; every controller's route is
\* its module's route + "/" + the controller's route; and every action of
\* every registered controller is registered with the router for its own
\* method at controller route + "/" + action route, or at the controller
\* route itself when the action's route is empty, and nowhere else.
C12_RouteComposition ==
    app.built =>
       /\ \A i \in Range(app.modules) :
             app.mobj[i].route \in RoutesOfModule(app.mobj[i].type, MaxDepth)
       /\ \A x \in 1..Len(app.instances) :
             app.instances[x].cls \in ControllerClasses =>
                app.instances[x].route \in RoutesOfController(app.instances[x].cls)
       /\ \A k \in ControllerClasses : \A cr \in RoutesOfController(k) :
             \A j \in 1..Len(cfg.ctrl[k].actions) :
                \E e \in Range(app.router) :
                   /\ e.method = cfg.ctrl[k].actions[j].method
                   /\ e.route = RouteOfAction(cr, cfg.ctrl[k].actions[j])
       /\ \A e \in Range(app.router) :
             /\ e.method = e.decl.method
             /\ e.route = RouteOfAction(app.instances[e.controller].route, e.decl)

\* module "api", controller "users", action ":id" on GET is registered at
\* GET /api/users/:id, next to an action without a route at /api/users
C12_Witness ==
    /\ app.built
    /\ \E e \in Range(app.router) : e.method = "GET" /\ e.route = "/api/users/:id"
    /\ \E e \in Range(app.router) : e.route = "/api/users"

\* the entries of a list whose middleware the registry holds
Found(list) == Cardinality({i \in 1..Len(list) : list[i].name \in cfg.registry})

C20_LookupsAtConstruction ==
    app.built =>
       \A e \in Range(app.router) : \A k \in Kinds :
          Found(e.decl[k]) = Len(e.decl[k])

-----------------------------------------------------------------------------
(* What construction does with the constructor dependencies of the classes *)
(* the module tree declares.                                               *)

\* the classes the injector resolves as services to construct cls: its
\* parameter types at the positions no injectable marker takes
ResolvedBy(cls) ==
    { cfg.paramtypes[cls][i] :
        i \in {j \in 1..Len(cfg.paramtypes[cls]) :
                 FindInjectable(ResolveInjectables(cfg, variant, cls), j) = None} }

RECURSIVE Needs(_, _)
\* the classes constructing cls resolves, directly or through others
Needs(cls, fuel) ==
    IF fuel = 0 THEN {}
    ELSE ResolvedBy(cls) \cup UNION {Needs(d, fuel - 1) : d \in ResolvedBy(cls)}

\* constructing cls runs into a class that needs itself
MeetsCycle(cls) == \E d \in {cls} \cup Needs(cls, MaxDepth) : d \in Needs(d, MaxDepth)

\* C21: no instance is ever constructed of a class whose constructor
\* dependencies run into a cycle, and when new App(...) meets such a class it
\* fails with an error of the injector's own: the resolution never recurses
\* until the call stack runs out (RangeError).
C21_CycleFails ==
    /\ \A i \in 1..Len(app.instances) : ~MeetsCycle(app.instances[i].cls)
    /\ app.error # "RangeError"

\* an entry of a module's providers list: {provides: token, service: class}
Provider(token, service) == [provides |-> token, service |-> service]
ProviderLists == {<<>>, <<Provider("S1", "S3")>>, <<Provider("S2", "S3")>>}

\* one module with providers, services, migrations and a controller, with or
\* without a submodule that has a migration; migration G1 is named "n1", and
\* class S1, which has no constructor parameters, may lack its @Service
ProviderConfigs ==
    { [ roots |-> <<"M1">>,
        mods |-> [m \in ModuleClasses |->
                    IF m = "M1"
                    THEN [ModuleParams("a", sub, s1, <<>>, k1)
                             EXCEPT !.providers = pv, !.migrations = g1]
                    ELSE p2],
        paramtypes |-> d.paramtypes, injectables |-> d.injectables,
        ctrl |-> [k \in ControllerClasses |-> ControllerMetadata("k", <<>>)],
        migration |-> [g \in MigrationClasses |-> IF g = "G1" THEN "n1" ELSE n2],
        registry |-> {}, undecorated |-> u,
        onInit |-> {}, onDestroy |-> {} ] :
      sub \in {<<>>, <<"M2">>},
      u \in {{}, {"S1"}},
      s1 \in SeqsUpTo(ServiceClasses, MaxList),
      k1 \in {<<>>, <<"K1">>},
      pv \in ProviderLists,
      g1 \in {<<>>, <<"G1">>, <<"G1", "G2">>},
      n2 \in MigrationNames,
      p2 \in {[EmptyParams EXCEPT !.migrations = <<"G2">>], NoParams},
      d \in {x \in DepChoices : x.paramtypes["S1"] = <<>>} }

InitProv ==
    /\ variant \in Variants
    /\ cfg \in ProviderConfigs
    /\ app = EmptyApp
    /\ ret = NoRet
    /\ life = NoLife
    /\ req = NoReq
    /\ reg = NoReg

\* construction, then lookups of what it left in the cache
NextProv ==
    \/ Construct
    \/ \E target \in ServiceClasses : Lookup(target)

SpecProv == InitProv /\ [][NextProv]_vars

\* the classes the module's providers list registers for token f
ProvidingClasses(m, f) ==
    {cfg.mods[m].providers[k].service :
        k \in {j \in 1..Len(cfg.mods[m].providers) : cfg.mods[m].providers[j].provides = f}}

\* the classes constructed while the providers themselves are registered
ProviderSide(m) ==
    UNION { {cfg.mods[m].providers[k].service}
               \cup Needs(cfg.mods[m].providers[k].service, MaxDepth) :
            k \in 1..Len(cfg.mods[m].providers) }

\* what the rule supplies at position k of the constructor of instance x
SuppliedByRule(m, x, k) ==
    IF ProvidingClasses(m, cfg.paramtypes[x.cls][k]) # {}
    THEN /\ x.args[k].resource = None /\ x.args[k].inst # 0
         /\ app.instances[x.args[k].inst].cls
               \in ProvidingClasses(m, cfg.paramtypes[x.cls][k])
    ELSE IF \E j \in 1..Len(cfg.injectables[x.cls]) : cfg.injectables[x.cls][j].index = k
    THEN x.args[k] = Arg(0, "server")
    ELSE /\ x.args[k].resource = None /\ x.args[k].inst # 0
         /\ x.args[k].inst = app.services[cfg.paramtypes[x.cls][k]]
         /\ app.instances[x.args[k].inst].cls = cfg.paramtypes[x.cls][k]

\* C22: every instance the injector constructed, other than the providers'
\* own classes and what they need, got each constructor parameter, in
\* order, from the provider registered for the parameter's type if the
\* module has one, else from the injectable resource declared for that
\* position if there is one, else from the singleton of the parameter's class.
C22_ParameterSources ==
    \A i \in 1..Len(app.instances) :
        app.instances[i].cls \notin ProviderSide("M1") =>
           /\ Len(app.instances[i].args) = Len(cfg.paramtypes[app.instances[i].cls])
           /\ \A k \in 1..Len(app.instances[i].args) :
                 SuppliedByRule("M1", app.instances[i], k)

\* the place of a list in the stated order of a module's registration
Rank(kind) ==
    CASE kind = "providers" -> 1 [] kind = "services" -> 2
      [] kind = "migrations" -> 3 [] kind = "controllers" -> 4

\* C23: the entries of a module are registered after those of its
\* submodules, and in the order providers, services, migrations, controllers.
C23_RegistrationOrder ==
    \A i, j \in 1..Len(app.registered) :
        i < j =>
           /\ app.registered[i].module = app.registered[j].module =>
                 Rank(app.registered[i].kind) <= Rank(app.registered[j].kind)
           /\ app.registered[j].module \notin Range(cfg.mods[app.registered[i].module].modules)

RECURSIVE ModulesUnder(_, _)
\* the module classes the tree reaches from a list of modules
ModulesUnder(list, fuel) ==
    IF fuel = 0 THEN {}
    ELSE Range(list) \cup UNION {ModulesUnder(cfg.mods[m].modules, fuel - 1) : m \in Range(list)}

\* the entries of the migrations lists of the reached modules
MigrationEntries ==
    {<<m, k>> : m \in ModulesUnder(cfg.roots, MaxDepth), k \in 1..MaxList}
       \cap {e \in ModuleClasses \X (1..MaxList) : e[2] <= Len(cfg.mods[e[1]].migrations)}
NameOfEntry(e) == cfg.migration[cfg.mods[e[1]].migrations[e[2]]]

\* C24: an App whose modules list two migrations of the same name is never
\* built: construction fails.
C24_DuplicateMigrationFails ==
    app.built =>
       \A e1, e2 \in MigrationEntries : e1 # e2 => NameOfEntry(e1) # NameOfEntry(e2)

\* C25: no instance of a class that was never decorated is ever created or
\* held by the service cache, whether the class is listed in a module's
\* services or reached as a constructor dependency; an App that uses such a
\* class is never built.
C25_UndecoratedFails ==
    \A s \in cfg.undecorated : InstancesOf(s) = {} /\ app.services[s] = 0

\* the modules of the tree that are declared with Module() and no parameters
Parameterless == {m \in ModulesUnder(cfg.roots, MaxDepth) : ~cfg.mods[m].given}

\* the same application with module m declared as Module({})
WithEmptyParams(m) == NewApp([cfg EXCEPT !.mods[m] = EmptyParams], variant)

\* C40: a module declared with Module() and no parameters is accepted:
\* construction registers it as a module without services, providers,
\* migrations or controllers whose route is its parent's route, as it does
\* for the same module declared with empty parameters.
C40_EmptyModuleAccepted ==
    \A m \in Parameterless :
        (~WithEmptyParams(m).error # None /\ (app.built \/ Failed(app))) =>
           /\ app.built
           /\ \E mi \in 1..Len(app.modules) :
                 /\ app.mobj[app.modules[mi]].type = m
                 /\ app.mobj[app.modules[mi]].services = <<>>
                 /\ app.mobj[app.modules[mi]].controllers = <<>>
                 /\ app.mobj[app.modules[mi]].route = "/a"

-----------------------------------------------------------------------------
(* The service lifecycle: run(), listen(), stop() and close().  A hook is   *)
(* called in one step and settles in a later one; life.log records both.   *)

Ops == {"run", "listen", "stop", "close"}

\* the calls that run _stopServices
StopOps == {"stop", "close"}

\* what a failing hook throws
HookErrors == {"E1", "E2"}

Event(ev, inst, err) == [ev |-> ev, inst |-> inst, err |-> err]

NewLife ==
    [ op       |-> None,                       \* the call in flight
      mi       |-> 0,                          \* position in _modules
      si       |-> 0,                          \* position in the module's list
      awaiting |-> 0,                          \* the instance whose hook is pending
      log      |-> <<>>,                       \* hook calls and their outcomes
      result   |-> [o \in Ops |-> "none"],     \* the promise each call returned
      error    |-> [o \in Ops |-> None],       \* what a rejected promise carries
      server   |-> "unbound" ]                 \* the http server

\* serviceInstance.onInit !== undefined; a subclass inherits the hook
HasOnInit(c, cls) == cls \in c.onInit \/ SuperOf(cls) \in c.onInit
HasOnDestroy(c, cls) == cls \in c.onDestroy \/ SuperOf(cls) \in c.onDestroy

Settle(l, op, err) ==
    [l EXCEPT !.op = None, !.mi = 0, !.si = 0, !.awaiting = 0,
              !.result[op] = IF err = None THEN "resolved" ELSE "rejected",
              !.error[op] = err]

\* _stopServices() settled.  stop() awaits it.  close() awaits it inside the
\* async executor of its Promise: when it resolved, httpServer.close(callback)
\* is called, which calls back with an error for a server that is not
\* running; when it threw, the executor's own promise is rejected and neither
\* resolve nor reject of close()'s Promise is ever called
StopSettled(l, err) ==
    IF l.op = "stop" THEN Settle(l, "stop", err)
    ELSE IF err = None
         THEN [l EXCEPT !.mi = 0, !.si = 0, !.awaiting = 0,
                        !.server = IF @ = "listening" THEN "closing" ELSE "not running"]
         ELSE [l EXCEPT !.op = None, !.mi = 0, !.si = 0, !.awaiting = 0]

\* A listen() that binds the server whatever _startServices did.
StartSettledEager(l, err) ==
    IF l.op = "run" THEN Settle(l, "run", err)
    ELSE [l EXCEPT !.mi = 0, !.si = 0, !.awaiting = 0, !.server = "binding"]

\* _startServices() settled.  run() awaits it; listen() chains
\* .then(() => httpServer.listen(port, host)).catch(reject)
StartSettled(l, err) ==
    IF l.op = "run" THEN Settle(l, "run", err)
    ELSE IF err = None
         THEN [l EXCEPT !.mi = 0, !.si = 0, !.awaiting = 0, !.server = "binding"]
         ELSE Settle(l, "listen", err)

\* moduleInstance.params.initialize of the mi-th registered module
InitializeOf(a, c, mi) == c.mods[a.mobj[a.modules[mi]].type].initialize

\* the head of the inner loop of _startServices: injector.getService(target)
\* in koa, which throws for a class never instantiated, and
\* _getServiceInstance(moduleInstance, target) in express, which creates it
StartLookup(a, c, v, mi, si) ==
    IF v = "koa" THEN [app |-> a, inst |-> GetService(a, InitializeOf(a, c, mi)[si])]
    ELSE NewService(a, c, v, a.modules[mi], InitializeOf(a, c, mi)[si], MaxDepth)

RECURSIVE StartServices(_, _, _, _, _, _)

\* the body of the inner loop: call onInit where the instance defines it
StartOne(r, a, c, v, l, mi, si) ==
    IF r.inst = 0
    THEN [app |-> a,
          life |-> StartSettled(l, IF Failed(r.app) THEN r.app.error ELSE "ServiceNotFound")]
    ELSE IF HasOnInit(c, r.app.instances[r.inst].cls)
    THEN [app |-> r.app,
          life |-> [l EXCEPT !.mi = mi, !.si = si, !.awaiting = r.inst,
                             !.log = Append(@, Event("onInit", r.inst, None))]]
    ELSE StartServices(r.app, c, v, l, mi, si + 1)

\* _startServices from position (mi, si) up to the next onInit call or the end
StartServices(a, c, v, l, mi, si) ==
    IF mi > Len(a.modules) THEN [app |-> a, life |-> StartSettled(l, None)]
    ELSE IF si > Len(InitializeOf(a, c, mi)) THEN StartServices(a, c, v, l, mi + 1, 1)
    ELSE Bind(StartLookup(a, c, v, mi, si), LAMBDA r : StartOne(r, a, c, v, l, mi, si))

\* the catch of _startServices: log and rethrow
StartCatch(l, err) == StartSettled(l, err)

RECURSIVE StopServices(_, _, _, _, _)

\* A catch that logs the error and goes on with the next service.
StopCatchSwallow(a, c, l, err) == StopServices(a, c, l, l.mi, l.si + 1)

\* the catch of _stopServices: log and rethrow; stop() awaits it
StopCatch(a, c, l, err) == StopSettled(l, err)

\* A stop that walks every instance the injector constructed.
ServicesOfInjector(a, mi) == [k \in 1..Len(a.instances) |-> k]

\* m.services of the mi-th registered module
ServicesOf(a, mi) == a.mobj[a.modules[mi]].services

\* _stopServices from position (mi, si) up to the next onDestroy call or the end
StopServices(a, c, l, mi, si) ==
    IF mi > Len(a.modules) THEN StopSettled(l, None)
    ELSE IF si > Len(ServicesOf(a, mi)) THEN StopServices(a, c, l, mi + 1, 1)
    ELSE IF HasOnDestroy(c, a.instances[ServicesOf(a, mi)[si]].cls)
    THEN [l EXCEPT !.mi = mi, !.si = si, !.awaiting = ServicesOf(a, mi)[si],
                   !.log = Append(@, Event("onDestroy", ServicesOf(a, mi)[si], None))]
    ELSE StopServices(a, c, l, mi, si + 1)

Idle == life.op = None
NeverCalled(o) == life.result[o] = "none"

\* the call is in flight and its promise pending
Calling(l, op) == [l EXCEPT !.op = op, !.result[op] = "pending"]

\* app.run()
Run ==
    /\ Idle /\ \A o \in Ops : NeverCalled(o)
    /\ \E r \in {StartServices(app, cfg, variant, Calling(life, "run"), 1, 1)} :
          app' = r.app /\ life' = r.life
    /\ UNCHANGED <<variant, cfg, ret, req, reg>>

\* app.listen(host, port)
Listen ==
    /\ Idle /\ \A o \in Ops : NeverCalled(o)
    /\ \E r \in {StartServices(app, cfg, variant, Calling(life, "listen"), 1, 1)} :
          app' = r.app /\ life' = r.life
    /\ UNCHANGED <<variant, cfg, ret, req, reg>>

\* app.stop()
Stop ==
    /\ Idle /\ NeverCalled("stop")
    /\ life' = StopServices(app, cfg, Calling(life, "stop"), 1, 1)
    /\ UNCHANGED <<variant, cfg, app, ret, req, reg>>

\* the log with the outcome of the pending hook
Logged(l, outcome, err) ==
    [l EXCEPT !.log = Append(@, Event(IF l.op \in StopOps THEN "onDestroy." \o outcome
                                      ELSE "onInit." \o outcome, l.awaiting, err))]

\* the pending hook's promise resolves: the loop goes on
HookReturns ==
    /\ life.awaiting # 0
    /\ IF life.op \in StopOps
       THEN /\ life' = StopServices(app, cfg, Logged(life, "ok", None), life.mi, life.si + 1)
            /\ app' = app
       ELSE \E r \in {StartServices(app, cfg, variant, Logged(life, "ok", None),
                                     life.mi, life.si + 1)} :
               app' = r.app /\ life' = r.life
    /\ UNCHANGED <<variant, cfg, ret, req, reg>>

\* the pending hook throws or its promise rejects
HookThrows(err) ==
    /\ life.awaiting # 0
    /\ life' = IF life.op \in StopOps THEN StopCatch(app, cfg, Logged(life, "err", err), err)
               ELSE StartCatch(Logged(life, "err", err), err)
    /\ UNCHANGED <<variant, cfg, app, ret, req, reg>>

\* the server's "listening" event: listen() resolves
ServerListening ==
    /\ life.server = "binding"
    /\ life' = [Settle(life, "listen", None) EXCEPT !.server = "listening"]
    /\ UNCHANGED <<variant, cfg, app, ret, req, reg>>

\* the server's "error" event: listen() rejects with it
ServerError ==
    /\ life.server = "binding"
    /\ life' = [Settle(life, "listen", "EADDRINUSE") EXCEPT !.server = "unbound"]
    /\ UNCHANGED <<variant, cfg, app, ret, req, reg>>

\* the services whose hooks the lifecycle configurations vary
LifeServices == {"S1", "S2"}

\* root modules and M1's submodules
TreeChoices ==
    { [roots |-> <<"M1">>, sub |-> <<>>],
      [roots |-> <<"M1", "M2">>, sub |-> <<>>],
      [roots |-> <<"M2", "M1">>, sub |-> <<>>],
      [roots |-> <<"M1">>, sub |-> <<"M2">>],
      [roots |-> <<"M1", "M2">>, sub |-> <<"M2">>] }

\* the classes that define onInit and onDestroy
HookChoices ==
    { [onInit |-> {"S1", "S2"}, onDestroy |-> {"S1", "S2"}],
      [onInit |-> {"S1"}, onDestroy |-> {"S2"}] }

LifeConfigs ==
    { [ roots |-> t.roots,
        mods |-> [m \in ModuleClasses |->
                    IF m = "M1" THEN ModuleParams("a", t.sub, s1, i1, <<>>)
                    ELSE ModuleParams("b", <<>>, s2, i2, <<>>)],
        paramtypes |-> [NoDeps EXCEPT !["S2"] = <<"S1">>], injectables |-> NoDeps,
        undecorated |-> {},
        onInit |-> h.onInit, onDestroy |-> h.onDestroy ] :
      t \in TreeChoices,
      s1 \in SeqsUpTo(LifeServices, MaxList),
      i1 \in SeqsUpTo(LifeServices, MaxList),
      s2 \in {<<>>, <<"S1">>},
      i2 \in {<<>>, <<"S1">>},
      h \in HookChoices }

InitLife ==
    /\ variant \in Variants
    /\ cfg \in LifeConfigs
    /\ app = NewApp(cfg, variant)
    /\ ret = NoRet
    /\ life = NewLife
    /\ req = NoReq
    /\ reg = NoReg

NextLife ==
    \/ Run
    \/ Listen
    \/ Stop
    \/ HookReturns
    \/ \E err \in HookErrors : HookThrows(err)
    \/ ServerListening
    \/ ServerError

SpecLife == InitLife /\ [][NextLife]_vars

\* the class of an instance
ClassOf(inst) == app.instances[inst].cls

LogPos == 1..Len(life.log)

\* the instances a hook was called on, in call order
HookCalls(ev) ==
    LET F[k \in 0..Len(life.log)] ==
            IF k = 0 THEN <<>>
            ELSE IF life.log[k].ev = ev THEN Append(F[k - 1], life.log[k].inst)
            ELSE F[k - 1]
    IN F[Len(life.log)]

\* how often x occurs in the sequence s
Count(s, x) == Cardinality({k \in 1..Len(s) : s[k] = x})

\* the instances the services lists of the registered modules hold that define
\* onDestroy, in module-registration order and then list order
ListedDestroy ==
    LET F[mi \in 0..Len(app.modules)] ==
            IF mi = 0 THEN <<>>
            ELSE F[mi - 1] \o SelectSeq(ServicesOf(app, mi),
                                        LAMBDA i : HasOnDestroy(cfg, ClassOf(i)))
    IN F[Len(app.modules)]

\* the classes the initialize lists of the registered modules name that define
\* onInit, in module-registration order and then list order
ListedInit ==
    LET F[mi \in 0..Len(app.modules)] ==
            IF mi = 0 THEN <<>>
            ELSE F[mi - 1] \o SelectSeq(InitializeOf(app, cfg, mi),
                                        LAMBDA s : HasOnInit(cfg, s))
    IN F[Len(app.modules)]

\* s without its repetitions, first occurrences kept
Dedup(s) ==
    LET F[k \in 0..Len(s)] ==
            IF k = 0 THEN <<>>
            ELSE IF \E j \in 1..(k - 1) : s[j] = s[k] THEN F[k - 1]
            ELSE Append(F[k - 1], s[k])
    IN F[Len(s)]

\* every hook call in the log is followed at once by its outcome
Sequential ==
    \A k \in LogPos :
        life.log[k].ev \in {"onInit", "onDestroy"} /\ k < Len(life.log) =>
            /\ life.log[k + 1].inst = life.log[k].inst
            /\ life.log[k + 1].ev \in {life.log[k].ev \o ".ok", life.log[k].ev \o ".err"}

\* C7, as the specification states it: a stop() that succeeds has called
\* onDestroy exactly once on every listed service instance that defines it,
\* also when a class is listed by more than one module, one call after the
\* other, in module-registration order and then services-list order.
C7_DestroyOnce ==
    life.result["stop"] = "resolved" =>
        /\ HookCalls("onDestroy") = Dedup(ListedDestroy)
        /\ Sequential

\* C8, as the specification states it: a run() that succeeds has called onInit
\* exactly once on each service that some initialize list names and that
\* defines it, one call after the other, in module-registration order and then
\* initialize-list order, and on no service that no initialize list names.
C8_InitOnce ==
    life.result["run"] = "resolved" =>
        /\ \A k \in 1..Len(ListedInit) :
              Count(HookCalls("onInit"), GetService(app, ListedInit[k])) = 1
        /\ \A k \in 1..Len(HookCalls("onInit")) :
              \E j \in 1..Len(ListedInit) : ListedInit[j] = ClassOf(HookCalls("onInit")[k])
        /\ Sequential

\* C9: listen() binds the server only after every initialize-listed onInit has
\* returned, in order; its promise resolves only with the server listening;
\* and once an onInit has failed no further onInit is called, the server is
\* never bound and the promise is rejected with the error that hook threw.
C9_ListenAfterInit ==
    life.result["listen"] # "none" =>
        /\ life.server # "unbound" =>
              /\ HookCalls("onInit.err") = <<>>
              /\ Len(HookCalls("onInit.ok")) = Len(ListedInit)
              /\ \A k \in 1..Len(ListedInit) :
                    ClassOf(HookCalls("onInit.ok")[k]) = ListedInit[k]
        /\ life.result["listen"] = "resolved" => life.server = "listening"
        /\ \A k \in LogPos :
              life.log[k].ev = "onInit.err" =>
                 /\ \A j \in LogPos : j > k => life.log[j].ev \notin {"onInit", "onInit.ok"}
                 /\ life.server = "unbound"
                 /\ life.result["listen"] = "rejected"
                 /\ life.error["listen"] = life.log[k].err

\* listen() was rejected by the first of several listed hooks
C9_Witness ==
    /\ life.result["listen"] = "rejected"
    /\ Len(HookCalls("onInit.err")) = 1
    /\ Len(HookCalls("onInit")) < Len(ListedInit)
    /\ life.server = "unbound"

\* C10: once an onDestroy has failed during stop(), no further onDestroy is
\* called and stop() is rejected with the error that hook threw.
C10_StopFailsFast ==
    \A k \in LogPos :
        life.log[k].ev = "onDestroy.err" =>
           /\ \A j \in LogPos : j > k => life.log[j].ev \notin {"onDestroy", "onDestroy.ok"}
           /\ life.result["stop"] = "rejected"
           /\ life.error["stop"] = life.log[k].err

\* stop() was rejected while listed services still waited for their onDestroy
C10_Witness ==
    /\ life.result["stop"] = "rejected"
    /\ Len(HookCalls("onDestroy.err")) = 1
    /\ Len(HookCalls("onDestroy")) < Len(ListedDestroy)

\* the class of the module at a position of app.modules, and its submodules
ModuleAt(mi) == app.mobj[app.modules[mi]].type
SubmodulesAt(mi) == Range(cfg.mods[ModuleAt(mi)].modules)

\* the positions in app.modules whose hooks _startServices (onInit) and
\* _stopServices (onDestroy) call, one entry for every hook, in the order of
\* their loops
HookModules(ev) ==
    LET n(mi) == IF ev = "onInit"
                 THEN Len(SelectSeq(InitializeOf(app, cfg, mi), LAMBDA x : HasOnInit(cfg, x)))
                 ELSE Len(SelectSeq(ServicesOf(app, mi), LAMBDA i : HasOnDestroy(cfg, ClassOf(i))))
        F[mi \in 0..Len(app.modules)] ==
            IF mi = 0 THEN <<>> ELSE F[mi - 1] \o [k \in 1..n(mi) |-> mi]
    IN F[Len(app.modules)]

\* the k-th hook call of the log is the hook that entry k stands for
CallsEntry(ev, k) ==
    IF ev = "onInit" THEN ClassOf(HookCalls(ev)[k]) = ListedInit[k]
    ELSE HookCalls(ev)[k] = ListedDestroy[k]

\* the module registered at position q is a submodule of the one at p
SubmoduleBefore(q, p) == q < p /\ ModuleAt(q) \in SubmodulesAt(p)

\* C35: after construction app.modules lists every module after all of its
\* submodules, so run() calls the onInit hooks of a submodule before those of
\* its parent module and stop() the onDestroy hooks of a submodule before
\* those of its parent module.
C35_SubmodulesFirst ==
    /\ \A p \in 1..Len(app.modules) :
          \A sub \in SubmodulesAt(p) : \E q \in 1..(p - 1) : ModuleAt(q) = sub
    /\ \A ev \in {"onInit", "onDestroy"} :
          /\ Len(HookCalls(ev)) <= Len(HookModules(ev))
          /\ \A k \in 1..Len(HookCalls(ev)) :
                /\ CallsEntry(ev, k)
                /\ \A j \in 1..Len(HookModules(ev)) :
                      SubmoduleBefore(HookModules(ev)[j], HookModules(ev)[k]) => j < k

\* run() and stop() have called the hook of a submodule and then the hook of
\* its parent module
C35_Witness ==
    /\ life.result["run"] = "resolved" /\ life.result["stop"] = "resolved"
    /\ \A ev \in {"onInit", "onDestroy"} :
          \E k \in 1..Len(HookCalls(ev)) : \E j \in 1..(k - 1) :
             SubmoduleBefore(HookModules(ev)[j], HookModules(ev)[k])

\* the classes the services lists of the registered modules declare, and the
\* instances their services arrays hold
DeclaredServices ==
    UNION {Range(cfg.mods[ModuleAt(mi)].services) : mi \in 1..Len(app.modules)}
HeldServices ==
    UNION {Range(app.mobj[app.modules[mi]].services) : mi \in 1..Len(app.modules)}

-----------------------------------------------------------------------------
(* close() of the koa variant, on an App that was or was not set listening. *)

\* app.close()
Close ==
    /\ Idle /\ NeverCalled("close")
    /\ life' = StopServices(app, cfg, Calling(life, "close"), 1, 1)
    /\ UNCHANGED <<variant, cfg, app, ret, req, reg>>

\* the server's "close" event: the callback of httpServer.close gets no error
ServerClosed ==
    /\ life.op = "close" /\ life.server = "closing"
    /\ life' = [Settle(life, "close", None) EXCEPT !.server = "closed"]
    /\ UNCHANGED <<variant, cfg, app, ret, req, reg>>

\* the callback of httpServer.close on a server that is not running
ServerNotRunning ==
    /\ life.op = "close" /\ life.server = "not running"
    /\ life' = [Settle(life, "close", "ERR_SERVER_NOT_RUNNING") EXCEPT !.server = "unbound"]
    /\ UNCHANGED <<variant, cfg, app, ret, req, reg>>

\* one root module with up to two services and no initialize list
CloseConfigs ==
    {c \in LifeConfigs : c.roots = <<"M1">> /\ \A m \in ModuleClasses : c.mods[m].initialize = <<>>}

InitClose ==
    /\ variant = "koa"
    /\ cfg \in CloseConfigs
    /\ app = NewApp(cfg, variant)
    /\ ret = NoRet
    /\ life = NewLife
    /\ req = NoReq
    /\ reg = NoReg

NextClose ==
    \/ Listen
    \/ ServerListening
    \/ ServerError
    \/ Close
    \/ HookReturns
    \/ \E err \in HookErrors : HookThrows(err)
    \/ ServerClosed
    \/ ServerNotRunning

SpecClose == InitClose /\ [][NextClose]_vars

\* every hook that was called settles and the server answers every request
\* made of it
SpecCloseFair == SpecClose /\ WF_vars(NextClose)

ClosePending == life.result["close"] = "pending"
CloseSettled == life.result["close"] \in {"resolved", "rejected"}

\* what a settled close() stands for
CloseOutcome ==
    /\ life.result["close"] = "resolved" =>
          /\ HookCalls("onDestroy") = ListedDestroy
          /\ HookCalls("onDestroy.ok") = ListedDestroy
          /\ life.server = "closed"
    /\ life.result["close"] = "rejected" =>
          \/ HookCalls("onDestroy.err") # <<>>
          \/ life.error["close"] = "ERR_SERVER_NOT_RUNNING"

\* C37: close() always settles: it resolves after every onDestroy hook has
\* completed and the server has closed, it rejects when an onDestroy hook
\* fails or the server reports a close error, and it never stays pending for
\* ever.
C37_CloseSettles ==
    /\ [](CloseOutcome)
    /\ ClosePending ~> CloseSettled

-----------------------------------------------------------------------------
(* The request pipeline: the handler chain _registerAction builds for one  *)
(* action, and one request travelling down it.  Middlewares are taken to   *)
(* declare no arguments and no resources of their own.                     *)


\* http-status-codes
OK == 200
MOVED_TEMPORARILY == 302
BAD_REQUEST == 400
UNAUTHORIZED == 401
FORBIDDEN == 403
CONFLICT == 409
INTERNAL_SERVER_ERROR == 500

\* errors.ts: AppError carries a code and a message; any other Error has a
\* message and whatever own properties its thrower gave it
Messages == {"reason", "detail"}
AppError(name, code) == [name |-> name, app |-> TRUE, code |-> code, message |-> "reason"]
AuthenticationError == AppError("AuthenticationError", UNAUTHORIZED)
AuthorizationError == AppError("AuthorizationError", FORBIDDEN)
ResourceError == AppError("ResourceError", CONFLICT)
ParameterError == AppError("ParameterError", BAD_REQUEST)
InternalServerError == AppError("InternalServerError", INTERNAL_SERVER_ERROR)
PlainError(name) == [name |-> name, app |-> FALSE, code |-> 0, message |-> "reason"]

\* the errors a handler can throw that are no AppError: an Error with either
\* message, without a `code` property or with a numeric one
ForeignErrors ==
    {[PlainError("Error") EXCEPT !.message = m, !.code = code] :
        m \in Messages, code \in {0, CONFLICT}}

\* what an awaited middleware can do: return a truthy value, return false,
\* return undefined, or throw
Returns(val) == [kind |-> "return", val |-> val]
Throws(err) == [kind |-> "throw", err |-> err]
Truthy(val) == val \notin {"false", Undef}
ThrownByUser == {ResourceError, PlainError("Error")}
MiddlewareOutcomes ==
    {Returns(val) : val \in {"v", "false", Undef}}
        \cup {Throws(err) : err \in ThrownByUser \cup {AuthenticationError}}

\* responses.ts: what an action handler resolves to
ActionResponse(status, data, next) == [status |-> status, data |-> data, next |-> next]
NullResponse == ActionResponse(OK, Undef, TRUE)
JsonResponse(next) == ActionResponse(OK, "data", next)
RedirectResponse == ActionResponse(MOVED_TEMPORARILY, "url", FALSE)
\* new RedirectResponse(url, headers, true)
RedirectResponseNext == ActionResponse(MOVED_TEMPORARILY, "url", TRUE)
Responds(resp) == [kind |-> "respond", resp |-> resp]
HandlerOutcomes ==
    {Responds(resp) : resp \in {NullResponse, JsonResponse(FALSE), JsonResponse(TRUE),
                                 RedirectResponse, RedirectResponseNext}}
        \cup {Throws(err) : err \in ThrownByUser \cup ForeignErrors \cup {InternalServerError}}

\* the argument bindings of the decorators @Header, @Param, @Query, @Body
ArgTypes == {"header", "param", "query", "body"}
NoArgs == <<>>
ArgMetadata(type, required) ==
    << [type |-> type, index |-> 0, name |-> "k", required |-> required] >>
ResolverMetadata(required) == << [index |-> 0, name |-> "r", required |-> required] >>

NoError == PlainError("none")

\* args[i] = x on a JavaScript array, i counted from 0: the array grows to
\* hold index i and the slots it skips are undefined
SetAt(args, i, x) ==
    [j \in 1..(IF Len(args) > i THEN Len(args) ELSE i + 1) |->
        IF j = i + 1 THEN x ELSE IF j <= Len(args) THEN args[j] ELSE Undef]

\* a facet of the incoming request.  Headers, params and query are always
\* objects; request.body is an object only when a body parser is configured
\* (params.parser), otherwise undefined.
Source(c, type) ==
    [ defined |-> (type # "body" \/ c.parser),
      keys |-> IF c.key /\ c.action.args # NoArgs /\ c.action.args[1].type = type
               THEN {"k"} ELSE {} ]
ValueOf(source, name) == IF name \in source.keys THEN "s" ELSE Undef

\* the body of the loop of _handleRequestSource
BindArg(v, source, am, acc) ==
    IF v = "koa"
    THEN IF ~source.defined THEN [acc EXCEPT !.err = PlainError("TypeError")]
         ELSE IF am.required /\ ValueOf(source, am.name) = Undef
              THEN [acc EXCEPT !.err = ParameterError]
         ELSE [acc EXCEPT !.args = SetAt(@, am.index, ValueOf(source, am.name)),
                          !.keys = @ \cup {am.name}]
    ELSE IF am.required /\ (~source.defined \/ am.name \notin source.keys)
         THEN [acc EXCEPT !.err = ParameterError]
         ELSE IF ~source.defined THEN [acc EXCEPT !.err = PlainError("TypeError")]
         ELSE [acc EXCEPT !.args = SetAt(@, am.index, ValueOf(source, am.name)),
                          !.keys = @ \cup {am.name}]

RECURSIVE HandleRequestSource(_, _, _, _, _)
HandleRequestSource(v, source, argsMetadata, i, acc) ==
    IF i > Len(argsMetadata) \/ acc.err # NoError THEN acc
    ELSE Bind(BindArg(v, source, argsMetadata[i], acc),
              LAMBDA a : HandleRequestSource(v, source, argsMetadata, i + 1, a))

OfType(argsMetadata, type) == SelectSeq(argsMetadata, LAMBDA am : am.type = type)

\* one facet after another, stopping at the first error
RECURSIVE HandleSources(_, _, _, _, _)
HandleSources(v, c, types, i, acc) ==
    IF i > Len(types) \/ acc.err # NoError THEN acc
    ELSE Bind(HandleRequestSource(v, Source(c, types[i]), OfType(c.action.args, types[i]), 1, acc),
              LAMBDA a : HandleSources(v, c, types, i + 1, a))

NoArgsYet == [args |-> <<>>, keys |-> {}, err |-> NoError]

\* koa: Object.keys(context.request.body) throws on an undefined body.
\* express: an undefined source is skipped.
ReportUnhandledKeys(v, c, acc) ==
    IF acc.err = NoError /\ v = "koa" /\ ~Source(c, "body").defined
    THEN [acc EXCEPT !.err = PlainError("TypeError")]
    ELSE acc

\* koa: _handleContextArgs, _handleRequestArgs, _reportUnhandledKeys at the
\* start of _handleAction.  express: _handleArgs(..., report = true).
HandleArgs(v, c) ==
    Bind(HandleSources(v, c,
                       IF v = "koa" THEN <<"header", "param", "query", "body">>
                       ELSE <<"header", "body", "query", "param">>, 1, NoArgsYet),
         LAMBDA a : ReportUnhandledKeys(v, c, a))

\* the express response object: res.status, res.end, res.send
NewResponse == [statusCode |-> 0, sent |-> FALSE, status |-> 0, body |-> Undef, location |-> Undef]
ResStatus(res, code) == [res EXCEPT !.statusCode = code]
ResBody(res, body) == IF res.sent THEN res ELSE [res EXCEPT !.body = body]
ResEnd(res) == IF res.sent THEN res ELSE [res EXCEPT !.sent = TRUE, !.status = res.statusCode]

\* if (result.status === httpStatus.MOVED_TEMPORARILY): express res.location(url)
\* sets the Location header; koa context.redirect(url) sets it, the status
\* and a body that names the url
Redirecting == "Redirecting to url"
Redirect(v, res, resp) ==
    IF resp.status # MOVED_TEMPORARILY THEN res
    ELSE IF v = "koa"
         THEN ResBody(ResStatus([res EXCEPT !.location = resp.data], MOVED_TEMPORARILY), Redirecting)
    ELSE [res EXCEPT !.location = resp.data]

NewRequest(chain) ==
    [ stage |-> "arrived", chain |-> chain, pc |-> 1, awaiting |-> FALSE,
      args |-> <<>>, auth |-> <<>>, resolved |-> <<>>, res |-> NewResponse,
      perm |-> "none", escaped |-> FALSE, log |-> <<>> ]

Step(r) == r.chain[r.pc]
Recorded(r, e) == [r EXCEPT !.log = Append(@, e)]
CallEvent(r) ==
    [ev |-> "call", fn |-> Step(r).fn, k |-> Step(r).k, args |-> r.args, perm |-> r.perm]
SettleEvent(r, out) == [ev |-> "settle", fn |-> Step(r).fn, k |-> Step(r).k, out |-> out]
RaiseEvent(r, err) == [ev |-> "raise", fn |-> Step(r).fn, k |-> Step(r).k, err |-> err]
Finished(r) == [r EXCEPT !.stage = "done", !.awaiting = FALSE]

\* next() calls the following handler at once, on the same stack: see
\* NextHandler below
RECURSIVE NextHandler(_, _, _)

\* koa context.throw(code, message): the error reaches koa's own handler,
\* which answers with the message below 500 and with the status text from 500
ContextThrow(code, message) ==
    ResEnd(ResBody(ResStatus(NewResponse, code),
                   IF code < INTERNAL_SERVER_ERROR THEN message ELSE "Internal Server Error"))

\* koa, the catch of _initialiseAction: context.throw(err.code || 500, err.message)
InitialiseActionCatch(r, err) ==
    Finished([r EXCEPT !.res = ContextThrow(IF err.code # 0 THEN err.code
                                            ELSE INTERNAL_SERVER_ERROR, err.message)])

\* express: res.status(err.code).send(err.message).end() for an AppError,
\* res.status(500).end() otherwise.  send() on a response whose headers are
\* already sent throws, here inside a catch block of an async handler.
HandleMiddlewareError(r, err) ==
    IF err.app
    THEN IF r.res.sent
         THEN Finished([r EXCEPT !.res = ResStatus(@, err.code), !.escaped = TRUE])
         ELSE Finished([r EXCEPT !.res = ResEnd(ResBody(ResStatus(@, err.code), err.message))])
    ELSE Finished([r EXCEPT !.res = ResEnd(ResStatus(@, INTERNAL_SERVER_ERROR))])

HandleActionError(r, err) ==
    IF err.app
    THEN IF r.res.sent
         THEN Finished([r EXCEPT !.res = ResStatus(@, err.code), !.escaped = TRUE])
         ELSE Finished([r EXCEPT !.res = ResEnd(ResBody(ResStatus(@, err.code), err.message))])
    ELSE Finished([r EXCEPT !.res = ResEnd(ResStatus(@, INTERNAL_SERVER_ERROR))])

\* an error thrown inside the handler at r.pc reaches the catch that guards it
Caught(r, v, err) ==
    IF v = "koa" THEN InitialiseActionCatch(r, err)
    ELSE IF Step(r).fn \in {"initialise", "action.handler"} THEN HandleActionError(r, err)
    ELSE HandleMiddlewareError(r, err)
Raise(r, v, err) == Caught(Recorded(r, RaiseEvent(r, err)), v, err)

-----------------------------------------------------------------------------
(* What each handler of the chain does once the middleware or action it    *)
(* awaits has settled with `out`.                                          *)

\* koa _bindAuthentication: a falsy result throws AuthenticationError
BindAuthentication(r, v, c, out) ==
    IF out.kind = "throw" THEN Raise(r, v, out.err)
    ELSE IF ~Truthy(out.val) THEN Raise(r, v, AuthenticationError)
    ELSE NextHandler(r, v, c)

\* koa _bindAuthorization: a falsy result throws AuthorizationError
BindAuthorization(r, v, c, out) ==
    IF out.kind = "throw" THEN Raise(r, v, out.err)
    ELSE IF ~Truthy(out.val) THEN Raise(r, v, AuthorizationError)
    ELSE NextHandler(r, v, c)

\* koa _bindGenerics: the result is not looked at
BindGenerics(r, v, c, out) ==
    IF out.kind = "throw" THEN Raise(r, v, out.err) ELSE NextHandler(r, v, c)

\* koa _handleResourceResolvers, one turn of the loop: the result replaces
\* the argument whatever it is
HandleResourceResolvers(r, v, c, out) ==
    IF out.kind = "throw" THEN Raise(r, v, out.err)
    ELSE NextHandler([r EXCEPT !.args = SetAt(@, c.action.resolvers[Step(r).k].index, out.val)], v, c)

\* koa _handleResourceValidators, one turn of the loop
HandleResourceValidators(r, v, c, out) ==
    IF out.kind = "throw" THEN Raise(r, v, out.err)
    ELSE IF ~Truthy(out.val) THEN Raise(r, v, AuthorizationError)
    ELSE NextHandler(r, v, c)

\* koa _handleAction after the handler resolved: status, body, next()
KoaHandleAction(r, v, c, out) ==
    IF out.kind = "throw" THEN Raise(r, v, out.err)
    ELSE NextHandler([r EXCEPT !.res = ResBody(ResStatus(Redirect(v, @, out.resp), out.resp.status), out.resp.data)], v, c)

\* An authentication handler that keeps one result for all requests: the
\* first one stored is handed to every request.
HandleAuthShared(r, v, c, out) ==
    IF out.kind = "throw" THEN Raise(r, v, out.err)
    ELSE NextHandler([r EXCEPT !.args = SetAt(@, Step(r).k,
                                   IF \E i \in DOMAIN req : req[i].auth # <<>>
                                   THEN req[CHOOSE i \in DOMAIN req : req[i].auth # <<>>].auth[1]
                                   ELSE out.val),
                               !.auth = Append(@, out.val)], v, c)

\* express _handleAuth: the result is stored, whatever it is
HandleAuth(r, v, c, out) ==
    IF out.kind = "throw" THEN Raise(r, v, out.err)
    ELSE NextHandler([r EXCEPT !.args = SetAt(@, Step(r).k, out.val),
                               !.auth = Append(@, out.val)], v, c)

\* express _handleResolve after the resolver settled
HandleResolve(r, v, c, out) ==
    IF out.kind = "throw" THEN Raise(r, v, out.err)
    ELSE IF out.val = Undef /\ c.action.resolvers[Step(r).k].required
         THEN Raise(r, v, ParameterError)
    ELSE NextHandler([r EXCEPT !.args = SetAt(@, c.action.resolvers[Step(r).k].index, out.val),
                               !.resolved = Append(@, out.val)], v, c)

\* A policy handler that lets the chain continue whatever the policy returned.
HandlePolicyLenient(r, v, c, out) ==
    IF out.kind = "throw" THEN Raise(r, v, out.err) ELSE NextHandler(r, v, c)

\* express _handlePolicy
HandlePolicy(r, v, c, out) ==
    IF out.kind = "throw" THEN Raise(r, v, out.err)
    ELSE IF Truthy(out.val) THEN NextHandler(r, v, c)
    ELSE Raise(r, v, AuthorizationError)

\* A hook handler that goes on to the next handler whatever the hook returned.
HandleMiddlewareOnward(r, v, c, out) ==
    IF out.kind = "throw" THEN Raise(r, v, out.err) ELSE NextHandler(r, v, c)

\* express _handleMiddleware: a falsy result ends the response with 200
HandleMiddleware(r, v, c, out) ==
    IF out.kind = "throw" THEN Raise(r, v, out.err)
    ELSE IF Truthy(out.val) THEN NextHandler(r, v, c)
    ELSE Finished([r EXCEPT !.res = ResEnd(ResStatus(@, OK))])

\* express _handleAction after the handler resolved: res.status, then
\* res.end() without data, else res.send(data) and next() or res.end()
HandleAction(r, v, c, out) ==
    IF out.kind = "throw" THEN Raise(r, v, out.err)
    ELSE IF out.resp.data = Undef
         THEN Finished([r EXCEPT !.res = ResEnd(ResStatus(Redirect(v, @, out.resp), out.resp.status))])
    ELSE IF r.res.sent THEN Raise(r, v, PlainError("ERR_HTTP_HEADERS_SENT"))
    ELSE IF out.resp.next
         THEN NextHandler([r EXCEPT !.res = ResEnd(ResBody(ResStatus(Redirect(v, @, out.resp), out.resp.status), out.resp.data))],
                          v, c)
    ELSE Finished([r EXCEPT !.res = ResEnd(ResBody(ResStatus(Redirect(v, @, out.resp), out.resp.status), out.resp.data))])

\* the handler at r.pc resumes after its await
Resume(r, v, c, out) ==
    CASE Step(r).fn = "authentication" ->
            IF v = "koa" THEN BindAuthentication(r, v, c, out) ELSE HandleAuth(r, v, c, out)
      [] Step(r).fn = "authorization" ->
            IF v = "koa" THEN BindAuthorization(r, v, c, out) ELSE HandlePolicy(r, v, c, out)
      [] Step(r).fn \in {"before", "after"} ->
            IF v = "koa" THEN BindGenerics(r, v, c, out) ELSE HandleMiddleware(r, v, c, out)
      [] Step(r).fn = "action.resolver" -> HandleResourceResolvers(r, v, c, out)
      [] Step(r).fn = "action.validator" -> HandleResourceValidators(r, v, c, out)
      [] Step(r).fn = "resolve" -> HandleResolve(r, v, c, out)
      [] Step(r).fn = "action.handler" ->
            IF v = "koa" THEN KoaHandleAction(r, v, c, out) ELSE HandleAction(r, v, c, out)

\* _initialiseAction.  koa: set context.state and await next().
\* express: extract the action's arguments, then next().
InitialiseAction(r, v, c) ==
    IF v = "koa" THEN NextHandler(r, v, c)
    ELSE Bind(HandleArgs(v, c),
              LAMBDA a : IF a.err # NoError THEN Raise(r, v, a.err)
                         ELSE NextHandler([r EXCEPT !.args = a.args], v, c))

\* koa: the start of _handleAction, up to the first await
HandleActionArgs(r, v, c) ==
    Bind(HandleArgs(v, c),
         LAMBDA a : IF a.err # NoError THEN Raise(r, v, a.err)
                    ELSE NextHandler([r EXCEPT !.args = a.args], v, c))

\* express _checkPermissions: checkRoutePermissions returns a Promise, and
\* `if (result)` tests the Promise object itself
PermissionPromise == "Promise"
CheckPermissionsOf(r, v, c) ==
    IF ~c.auth THEN NextHandler(r, v, c)
    ELSE IF Truthy(PermissionPromise) THEN NextHandler([r EXCEPT !.perm = "pending"], v, c)
    ELSE Finished([r EXCEPT !.res = ResEnd(ResStatus(@, FORBIDDEN))])

\* a handler that awaits a middleware or the action runs up to that await.
\* express _handleResolve first checks that req.args reaches the index.
Enter(r, v, c) ==
    IF v = "express" /\ Step(r).fn = "resolve"
         /\ Len(r.args) <= c.action.resolvers[Step(r).k].index
    THEN Raise(r, v, PlainError("Error"))
    ELSE Recorded([r EXCEPT !.awaiting = TRUE], CallEvent(r))

\* the handler at r.pc is called
RunHandler(r, v, c) ==
    CASE Step(r).fn = "action.args" -> HandleActionArgs(Recorded(r, CallEvent(r)), v, c)
      [] Step(r).fn = "checkPermissions" -> CheckPermissionsOf(Recorded(r, CallEvent(r)), v, c)
      [] OTHER -> Enter(r, v, c)

\* next(): the following handler runs, on the same stack, up to its first
\* await.  After the last handler, koa unwinds the chain and writes the
\* response with context.status.
NextHandler(r, v, c) ==
    IF r.pc < Len(r.chain)
    THEN Bind([r EXCEPT !.pc = @ + 1, !.awaiting = FALSE], LAMBDA n : RunHandler(n, v, c))
    ELSE IF v = "koa" THEN Finished([r EXCEPT !.res = ResEnd(@)])
    ELSE Finished(r)

\* what the awaited function at r.pc may settle with.  Only a resolver's
\* result is used as a value; elsewhere it is tested for truth.
OutcomesOf(fn) ==
    CASE fn = "action.handler" -> HandlerOutcomes
      [] fn = "authentication" -> MiddlewareOutcomes \ {Returns("false")}
      [] fn \in {"resolve", "action.resolver"} -> MiddlewareOutcomes \ {Throws(AuthenticationError)}
      [] OTHER -> MiddlewareOutcomes \ {Returns("false"), Throws(AuthenticationError)}

-----------------------------------------------------------------------------
(* One request to one registered action.                                   *)

ArgChoices ==
    {NoArgs} \cup {ArgMetadata(type, required) : type \in ArgTypes, required \in BOOLEAN}
ResolverChoices == {<<>>} \cup {ResolverMetadata(required) : required \in BOOLEAN}

\* parser: params.parser is given.  auth: params.auth is given (express).
\* key: the request carries the key the action's argument is bound to.
ReqConfigs(v) ==
    { [ parser |-> parser, auth |-> auth, key |-> key,
        action |-> ActionMetadata(nAuth, nPolicy, nBefore, nAfter, args, resolvers, nValidators) ] :
      parser \in BOOLEAN,
      auth \in IF v = "koa" THEN {FALSE} ELSE BOOLEAN,
      key \in BOOLEAN,
      nAuth \in 0..MaxAuth,
      nPolicy \in 0..MaxHooks,
      nBefore \in 0..MaxHooks,
      nAfter \in 0..MaxHooks,
      args \in ArgChoices,
      resolvers \in ResolverChoices,
      nValidators \in IF v = "koa" THEN 0..MaxHooks ELSE {0} }

\* the request can carry the key only in a facet the application reads: the
\* action binds an argument, and a body is read only through a body parser
HasFacet(c) == c.action.args # NoArgs /\ Source(c, c.action.args[1].type).defined

InitReq ==
    /\ variant \in Variants
    /\ cfg \in {c \in ReqConfigs(variant) : c.key => HasFacet(c)}
    /\ app = EmptyApp
    /\ ret = NoRet
    /\ life = NoLife
    /\ req = NewRequest(RegisterAction(variant, cfg.action))
    /\ reg = NoReg

\* the router calls the first handler of the chain
Dispatch ==
    /\ req.stage = "arrived"
    /\ \E r \in {Recorded([req EXCEPT !.stage = "running"], CallEvent(req))} :
          req' = InitialiseAction(r, variant, cfg)
    /\ UNCHANGED <<variant, cfg, app, ret, life, reg>>

\* the awaited middleware or action settles and its handler runs to its end
Settles(out) ==
    /\ req.stage = "running" /\ req.awaiting
    /\ out \in OutcomesOf(Step(req).fn)
    /\ \E r \in {Recorded(req, SettleEvent(req, out))} : req' = Resume(r, variant, cfg, out)
    /\ UNCHANGED <<variant, cfg, app, ret, life, reg>>

\* the Promise of checkRoutePermissions settles; nothing awaits it, so a
\* rejection is an unhandled rejection
PermissionOutcomes == {Returns("true"), Returns("false"), Throws(PlainError("Error"))}
PermissionSettles(out) ==
    /\ req.perm = "pending"
    /\ req' = [req EXCEPT
                 !.perm = IF out.kind = "throw" THEN "rejected"
                          ELSE IF out.val = "true" THEN "granted" ELSE "denied",
                 !.escaped = @ \/ out.kind = "throw"]
    /\ UNCHANGED <<variant, cfg, app, ret, life, reg>>

NextReq ==
    \/ Dispatch
    \/ \E out \in MiddlewareOutcomes \cup HandlerOutcomes : Settles(out)
    \/ \E out \in PermissionOutcomes : PermissionSettles(out)

SpecReq == InitReq /\ [][NextReq]_vars

-----------------------------------------------------------------------------
(* Claims about the request pipeline, over the log of the request.         *)

ReqLog == 1..Len(req.log)
CallsOf(fns) == {i \in ReqLog : req.log[i].ev = "call" /\ req.log[i].fn \in fns}
SettlesOf(fns) == {i \in ReqLog : req.log[i].ev = "settle" /\ req.log[i].fn \in fns}
Raises == {i \in ReqLog : req.log[i].ev = "raise"}
HandlerCalled == CallsOf({"action.handler"}) # {}
ResolverFns == {"resolve", "action.resolver"}

\* the stages in the order the specification gives them; argument extraction
\* is not one of them
StageRank(fn) ==
    CASE fn = "initialise" -> 1
      [] fn = "authentication" -> 2
      [] fn \in {"authorization", "checkPermissions", "action.validator"} \cup ResolverFns -> 3
      [] fn = "before" -> 4
      [] fn = "action.handler" -> 5
      [] fn = "after" -> 6
      [] OTHER -> 0
Staged == {i \in ReqLog : req.log[i].ev = "call" /\ StageRank(req.log[i].fn) > 0}

\* the result of the stage called at i is known when the stage at j is called
ResultKnown(i, j) ==
    CASE req.log[i].fn = "initialise" -> TRUE
      [] req.log[i].fn = "checkPermissions" -> req.log[j].perm # "pending"
      [] OTHER -> \E s \in SettlesOf({req.log[i].fn}) :
                     i < s /\ s < j /\ req.log[s].k = req.log[i].k

\* every middleware that settled before the handler passed: it returned a
\* truthy value
OthersPass ==
    \A i \in ReqLog :
        req.log[i].ev = "settle" /\ req.log[i].fn # "action.handler"
            => req.log[i].out = Returns("v")

\* C2: for every request the stages run in the order initialiser,
\* authentication, authorization/permission and resolver/validator checks,
\* before-hooks, action handler, after-hooks, and no stage is called before
\* the result of every earlier stage is known.
C2_StageOrder ==
    \A i \in Staged : \A j \in Staged :
        i < j => /\ StageRank(req.log[i].fn) <= StageRank(req.log[j].fn)
                 /\ ResultKnown(i, j)

\* C3: if an authentication middleware returned a falsy value or threw, the
\* action handler is never called and the response status is 401.
C3_AuthFailure ==
    \A i \in SettlesOf({"authentication"}) :
        (req.log[i].out.kind = "throw" \/ ~Truthy(req.log[i].out.val))
            => /\ ~HandlerCalled
               /\ req.res.sent => req.res.status = UNAUTHORIZED

\* C4: with a required header, param, query or body binding, a request
\* without the key is answered 400 and never reaches the action handler, and
\* a request with the key reaches the action handler (the middlewares before
\* it passing).
C4_RequiredArg ==
    (cfg.action.args # NoArgs /\ cfg.action.args[1].required)
        => /\ ~cfg.key => ~HandlerCalled
           /\ (~cfg.key /\ OthersPass /\ req.res.sent) => req.res.status = BAD_REQUEST
           /\ (cfg.key /\ OthersPass /\ req.stage = "done") => HandlerCalled

\* C5: with a required resolver on argument index i, a resolver returning
\* undefined gives status 400 and the action handler is not called; a
\* resolver returning a defined value v has the action handler called with v
\* at position i.
C5_RequiredResolver ==
    \A i \in SettlesOf(ResolverFns) :
        cfg.action.resolvers[req.log[i].k].required /\ req.log[i].out.kind = "return"
            => IF req.log[i].out.val = Undef
               THEN /\ ~HandlerCalled
                    /\ req.res.sent => req.res.status = BAD_REQUEST
               ELSE /\ \A h \in CallsOf({"action.handler"}) :
                          req.log[h].args[cfg.action.resolvers[req.log[i].k].index + 1]
                              = req.log[i].out.val
                    /\ (OthersPass /\ req.stage = "done") => HandlerCalled

\* the status the error mapper gives an error
Mapped(err) == IF err.app THEN err.code ELSE INTERNAL_SERVER_ERROR

\* C6: once a stage has failed (an error was raised in it, or the permission
\* check denied or rejected), no later stage is called, the response carries
\* the mapped status, and no error leaves the pipeline.
C6_FailStop ==
    /\ \A i \in Raises :
          /\ \A j \in CallsOf({req.log[k].fn : k \in ReqLog}) : j < i
          /\ req.res.sent => req.res.status = Mapped(req.log[i].err)
    /\ \A j \in ReqLog : req.log[j].ev = "call" => req.log[j].perm \notin {"denied", "rejected"}
    /\ ~req.escaped

\* C15: with an authorization service configured, a request whose
\* checkRoutePermissions yields false is answered 403 and its action handler
\* is never called; without such a service the permission step calls the next
\* handler of the chain at once.
C15_PermissionCheck ==
    /\ req.perm = "denied" =>
          /\ ~HandlerCalled
          /\ req.res.sent => req.res.status = FORBIDDEN
    /\ ~cfg.auth =>
          \A i \in CallsOf({"checkPermissions"}) :
             i < Len(req.log) /\ req.log[i + 1].ev = "call"

PolicyFns == {"authorization", "action.validator"}

\* C16: when a validator or policy middleware (in koa also an Authorize
\* entry) returns a falsy value, the request is answered 403 and the action
\* handler is not called; when it returns a truthy value the next handler of
\* the chain is called.
C16_PolicyCheck ==
    \A i \in SettlesOf(PolicyFns) :
        req.log[i].out.kind = "return" =>
           IF Truthy(req.log[i].out.val)
           THEN i < Len(req.log) /\ req.log[i + 1].ev = "call"
           ELSE /\ ~HandlerCalled
                /\ req.stage = "done"
                /\ req.res.status = FORBIDDEN

\* a policy returned a falsy value: the request ended with 403 and the before-hook
\* the action declares was never called
C16_Witness ==
    /\ \E i \in SettlesOf(PolicyFns) :
          req.log[i].out.kind = "return" /\ ~Truthy(req.log[i].out.val)
    /\ req.res.status = FORBIDDEN /\ req.stage = "done"
    /\ cfg.action.before > 0 /\ CallsOf({"before"}) = {}

\* C17: once the request is done, the response of a request in which an
\* error was raised carries that error's own status when the error is an
\* AppError (401, 403, 400, 409, 500 for the five classes of errors.ts) and
\* 500 when it is any other error.
C17_ErrorMapping ==
    \A i \in Raises :
        req.stage = "done" =>
           /\ req.res.sent
           /\ req.res.status = Mapped(req.log[i].err)

\* C18: wherever a handler is awaiting, any two errors that are no AppError
\* get the same response if thrown there, with status 500, whatever their
\* messages and own properties are.
C18_ForeignErrorsAlike ==
    req.awaiting =>
       \A e1, e2 \in ForeignErrors :
           /\ Caught(req, variant, e1).res = Caught(req, variant, e2).res
           /\ Caught(req, variant, e1).res.status = INTERNAL_SERVER_ERROR

\* C19: once the action handler has resolved to a response, an after-hook is
\* called if and only if that response's `next` is true, and with `next`
\* false the response is ended.
C19_ContinueChain ==
    \A i \in SettlesOf({"action.handler"}) :
        (req.log[i].out.kind = "respond" /\ cfg.action.after > 0) =>
           /\ (CallsOf({"after"}) # {}) <=> req.log[i].out.resp.next
           /\ ~req.log[i].out.resp.next => req.stage = "done" /\ req.res.sent

\* an authentication middleware succeeded: it returned, and in koa what it
\* returned is truthy
AuthSucceeded(i) ==
    /\ req.log[i].out.kind = "return"
    /\ variant = "koa" => Truthy(req.log[i].out.val)

\* C29: after an authentication middleware of the request has succeeded, the
\* value it returned is in the request's authentication map under the name of
\* its scheme (the k-th scheme of the action keeps the k-th place), where the
\* later stages of the request read it.
C29_AuthStored ==
    \A i \in SettlesOf({"authentication"}) :
        AuthSucceeded(i) =>
           /\ Len(req.auth) >= req.log[i].k
           /\ req.auth[req.log[i].k] = req.log[i].out.val

\* the extraction of the action's arguments alone, with no report of the
\* keys left over
ArgsUnreported(v, c) ==
    HandleSources(v, c,
                  IF v = "koa" THEN <<"header", "param", "query", "body">>
                  ELSE <<"header", "body", "query", "param">>, 1, NoArgsYet)

ArgStages == {"initialise", "action.args"}

\* C30: reporting the unhandled keys never changes the outcome of a request:
\* whatever the stage that extracts the arguments raises, the extraction
\* raises by itself, so that the status and the stages that run are those of
\* the request without the report, a body that was never parsed included.
C30_ReportHarmless ==
    \A i \in Raises :
        req.log[i].fn \in ArgStages => req.log[i].err = ArgsUnreported(variant, cfg).err

\* the action binds one argument that is not required, and the request does
\* not carry its key
OptionalAbsent ==
    /\ cfg.action.args # NoArgs
    /\ ~cfg.action.args[1].required
    /\ ~cfg.key

\* C31: a binding that is not required and whose key the request lacks never
\* fails the request, for header, param, query and body alike and for a body
\* that was never parsed: the stage that extracts the arguments raises
\* nothing, and the action handler, when called, finds the slot undefined.
C31_OptionalNeverFails ==
    OptionalAbsent =>
       /\ \A i \in Raises : req.log[i].fn \notin ArgStages
       /\ \A i \in CallsOf({"action.handler"}) :
             cfg.action.resolvers = <<>> => req.log[i].args[cfg.action.args[1].index + 1] = Undef

\* the action handler resolved to a redirect and nothing was raised since
Redirects ==
    {i \in SettlesOf({"action.handler"}) :
        /\ req.log[i].out.kind = "respond"
        /\ req.log[i].out.resp.status = MOVED_TEMPORARILY
        /\ Raises = {}}

\* C32: when the status of the action's response is a redirect (302), the
\* response carries a Location header set to the response data, and no body
\* is written from the response data.
C32_RedirectLocation ==
    \A i \in Redirects :
        /\ req.res.location = req.log[i].out.resp.data
        /\ req.res.body # req.log[i].out.resp.data

\* the generic hooks of the request that returned, falsy or truthy
HookReturned(truthy) ==
    {i \in SettlesOf({"before", "after"}) :
        /\ req.log[i].out.kind = "return"
        /\ Truthy(req.log[i].out.val) = truthy}

\* the hook that settled at i is the last handler of the chain
LastHandler(i) == req.log[i].fn = "after" /\ req.log[i].k = cfg.action.after

\* a truthy result continues the chain
TruthyHookContinues ==
    \A i \in HookReturned(TRUE) :
        ~LastHandler(i) => i < Len(req.log) /\ req.log[i + 1].ev = "call"

\* the status of the response the action handler resolved to
ActionStatus ==
    LET i == CHOOSE i \in SettlesOf({"action.handler"}) : TRUE
    IN req.log[i].out.resp.status

\* C38, as stated: in the express variant a before-hook or after-hook that
\* returns a falsy value ends the response with status 200 and hands control
\* to no later stage, so that after a falsy before-hook the action handler is
\* never called; a truthy result, and only that, continues the chain.
C38_FalsyHookEndsAsStated ==
    variant = "express" =>
       /\ \A i \in HookReturned(FALSE) :
             /\ i = Len(req.log)
             /\ req.stage = "done" /\ req.res.sent /\ req.res.status = OK
             /\ req.log[i].fn = "before" => ~HandlerCalled
       /\ TruthyHookContinues

\* C38, amended: in the express variant a hook that returns a falsy value
\* hands control to no later stage; a falsy before-hook ends the response
\* with status 200 and the action handler is never called; a falsy after-hook
\* leaves the response as the action sent it, with the action's status; a
\* truthy result, and only that, continues the chain.
C38_FalsyHookEnds ==
    variant = "express" =>
       /\ \A i \in HookReturned(FALSE) :
             /\ i = Len(req.log)
             /\ req.stage = "done" /\ req.res.sent
             /\ req.log[i].fn = "before" => req.res.status = OK /\ ~HandlerCalled
             /\ req.log[i].fn = "after" => req.res.status = ActionStatus
       /\ TruthyHookContinues

\* an after-hook returned a falsy value once the action had sent a redirect
\* and called next()
C38_Witness ==
    /\ variant = "express"
    /\ \E i \in HookReturned(FALSE) : req.log[i].fn = "after"
    /\ req.stage = "done" /\ req.res.sent
    /\ req.res.status = MOVED_TEMPORARILY

\* koa, and the request lacks a required param, query or body argument
LacksRequired ==
    /\ variant = "koa"
    /\ cfg.action.args # NoArgs
    /\ cfg.action.args[1].required
    /\ cfg.action.args[1].type \in {"param", "query", "body"}
    /\ ~cfg.key

\* every middleware of the handlers before the action was called, and settled
MiddlewaresInvoked ==
    /\ Cardinality(SettlesOf({"authentication"})) = cfg.action.authentication
    /\ Cardinality(SettlesOf({"authorization"})) = cfg.action.authorization
    /\ Cardinality(SettlesOf({"before"})) = cfg.action.before

\* the extraction of the arguments has been reached and has failed
ExtractionFailed == \E i \in Raises : req.log[i].fn = "action.args"

\* C39: in the koa variant the arguments are extracted inside the action
\* stage: a request that lacks a required param, query or body argument has
\* every authentication, authorization and before-hook middleware called
\* before it is answered 400, and no resolver, validator, action handler or
\* after-hook is called for it.
C39_ArgsInsideAction ==
    LacksRequired =>
       /\ CallsOf({"action.resolver", "action.validator", "action.handler", "after"}) = {}
       /\ CallsOf({"action.args"}) # {} => MiddlewaresInvoked /\ ExtractionFailed
       /\ ExtractionFailed => req.res.sent /\ req.res.status = BAD_REQUEST

-----------------------------------------------------------------------------
(* A built App serving one request after another.  The action of the       *)
(* example increments a counter and returns it; `count` is that state of   *)
(* an instance.                                                            *)

MaxRequests == 3    \* requests served one after another

\* the instance whose counter the action increments: the service its
\* controller was constructed with, or the controller itself
CountedBy(a, k) ==
    IF a.instances[k].args # <<>> /\ a.instances[k].args[1].inst # 0
    THEN a.instances[k].args[1].inst ELSE k

\* koa _handleMiddleware: injector.getService(metadata.target) for every
\* middleware called, which throws when the cache has no such service;
\* express bound every middleware to its instance at construction
ServiceNotFound(a, v, decl, kinds) ==
    /\ v = "koa"
    /\ \E kd \in kinds : \E i \in 1..Len(decl[kd]) : GetService(a, decl[kd][i].service) = 0

\* the bound action handler runs on the controller instance it was bound to
RunAction(a, v, e) ==
    [ app |-> [a EXCEPT !.instances[CountedBy(a, e.controller)].count = @ + 1],
      res |-> [ status |-> IF ServiceNotFound(a, v, e.decl, {"after"})
                           THEN INTERNAL_SERVER_ERROR ELSE OK,
                by |-> e.controller,
                count |-> a.instances[CountedBy(a, e.controller)].count + 1 ] ]

\* A binder that constructs the controller anew for every request.
HandleRequestFresh(a, c, v, e) ==
    Bind(NewInstance(a, c, v, 1, a.instances[e.controller].cls, MaxDepth),
         LAMBDA r : [ app |-> r.app,
                      res |-> [status |-> OK, by |-> r.inst, count |-> 1] ])

\* a request to the route of router entry e runs e's chain: the middlewares
\* before the action, the bound action handler, the after-hooks
HandleRequest(a, c, v, e) ==
    IF ServiceNotFound(a, v, e.decl, Kinds \ {"after"})
    THEN [app |-> a, res |-> [status |-> INTERNAL_SERVER_ERROR, by |-> 0, count |-> 0]]
    ELSE RunAction(a, v, e)

\* actions whose middlewares are all defined, on GET :id
ServedDecls ==
    { ActionDecl("GET", ":id", au, <<>>, be, af, <<>>, <<>>) :
        au \in SeqsUpTo({Entry("m")}, MaxAuth),
        be \in SeqsUpTo({Entry("m")}, MaxHooks),
        af \in SeqsUpTo({Entry("m")}, MaxHooks) }

\* module "api" with controller "users", with or without service S1 in its
\* services, the controller with or without S1 as constructor parameter
ServeConfigs ==
    { [ RouteConfig([ApiTree EXCEPT !.mods["M1"].services = s1], "users", <<d>>)
           EXCEPT !.paramtypes["K1"] = k1 ] :
        s1 \in {<<>>, <<"S1">>}, k1 \in {<<>>, <<"S1">>}, d \in ServedDecls }

NoneServed == [served |-> <<>>]

InitServe ==
    /\ variant \in Variants
    /\ cfg \in ServeConfigs
    /\ app = NewApp(cfg, variant)
    /\ app.built
    /\ ret = NoRet
    /\ life = NoLife
    /\ req = NoneServed
    /\ reg = NoReg

\* one request is served from its arrival to its response
Serve(e) ==
    /\ Len(req.served) < MaxRequests
    /\ \E r \in {HandleRequest(app, cfg, variant, e)} :
          /\ app' = r.app
          /\ req' = [served |-> Append(req.served, r.res)]
    /\ UNCHANGED <<variant, cfg, ret, life, reg>>

NextServe == \E i \in 1..Len(app.router) : Serve(app.router[i])

SpecServe == InitServe /\ [][NextServe]_vars

\* the instances, caches and module objects, the counters set aside
Built0(a) == [a EXCEPT !.instances = [i \in DOMAIN @ |-> [@[i] EXCEPT !.count = 0]]]

\* the requests served so far whose action handler ran
Answered == {k \in 1..Len(req.served) : req.served[k].by # 0}

\* C27: serving a request leaves every instance, the service cache and the
\* module objects as construction built them; every action runs on the
\* controller instance registered with its route; and the counter the
\* action increments goes on from request to request: the k-th request
\* whose action runs returns k.
C27_ServedByBuiltInstances ==
    /\ [][Built0(app') = Built0(app)]_vars
    /\ [](\A k \in Answered :
             /\ \E i \in 1..Len(app.router) : app.router[i].controller = req.served[k].by
             /\ req.served[k].count = Cardinality({j \in Answered : j <= k}))

\* two requests in a row were answered 200 with counts 1 and 2
C27_Witness ==
    /\ Len(req.served) >= 2
    /\ req.served[1].status = OK /\ req.served[1].count = 1
    /\ req.served[2].status = OK /\ req.served[2].count = 2

-----------------------------------------------------------------------------
(* Two requests to one action in flight at the same time.  Here `req` is   *)
(* the pair of the two request objects; each handler works on the request  *)
(* object (koa: context) it was called with.                               *)

Requests == {1, 2}
Other(id) == 3 - id

\* what belongs to request id: the value of its key, and what its
\* middlewares return for it
Tag(id) == IF id = 1 THEN "v1" ELSE "v2"

\* the key's value as the request carries it
OwnValue(x, id) == IF x = "s" THEN Tag(id) ELSE x
Own(r, id) == [r EXCEPT !.args = [j \in DOMAIN @ |-> OwnValue(@[j], id)]]

ConcConfigs(v) ==
    { c \in ReqConfigs(v) :
        /\ c.parser /\ c.key /\ ~c.auth
        /\ c.action.args = ArgMetadata("header", TRUE)
        /\ c.action.authentication >= 1 /\ c.action.after = 0
        /\ c.action.validators = 0
        /\ c.action.resolvers \in {<<>>, ResolverMetadata(TRUE)} }

InitConc ==
    /\ variant \in Variants
    /\ cfg \in ConcConfigs(variant)
    /\ app = EmptyApp
    /\ ret = NoRet
    /\ life = NoLife
    /\ req = [id \in Requests |-> NewRequest(RegisterAction(variant, cfg.action))]
    /\ reg = NoReg

\* the router calls the first handler of the chain with request id
DispatchOf(id) ==
    /\ req[id].stage = "arrived"
    /\ \E r \in {Recorded([req[id] EXCEPT !.stage = "running"], CallEvent(req[id]))} :
          req' = [req EXCEPT ![id] = Own(InitialiseAction(r, variant, cfg), id)]
    /\ UNCHANGED <<variant, cfg, app, ret, life, reg>>

\* what request id's awaited middleware or action may settle with
OutcomesFor(id, fn) ==
    IF fn = "action.handler" THEN {Responds(JsonResponse(FALSE)), Throws(ResourceError)}
    ELSE {Returns(Tag(id)), Throws(ResourceError)}

\* the function request id awaits settles; its handler runs to its end
SettlesFor(id, out) ==
    /\ req[id].stage = "running" /\ req[id].awaiting
    /\ out \in OutcomesFor(id, Step(req[id]).fn)
    /\ \E r \in {Recorded(req[id], SettleEvent(req[id], out))} :
          req' = [req EXCEPT ![id] = Own(Resume(r, variant, cfg, out), id)]
    /\ UNCHANGED <<variant, cfg, app, ret, life, reg>>

NextConc ==
    \/ \E id \in Requests : DispatchOf(id)
    \/ \E id \in Requests :
          \E out \in {Returns(Tag(id)), Responds(JsonResponse(FALSE)), Throws(ResourceError)} :
             SettlesFor(id, out)

SpecConc == InitConc /\ [][NextConc]_vars

\* the values request id holds or has handed to a middleware or the action
HeldBy(id) ==
    Range(req[id].args) \cup Range(req[id].auth) \cup Range(req[id].resolved)
       \cup UNION {Range(req[id].log[i].args) :
                     i \in {j \in 1..Len(req[id].log) : req[id].log[j].ev = "call"}}

\* C26: however the two requests interleave at their suspension points, no
\* value extracted, authenticated or resolved for one of them is in the
\* other's argument array or scratch state, or is passed to a middleware or
\* the action handler of the other.
C26_RequestIsolation ==
    \A id \in Requests : Tag(Other(id)) \notin HeldBy(id)

\* both requests are in flight, each awaiting its action handler with its
\* own authenticated value and its own key's value in its arguments
C26_Witness ==
    \A id \in Requests :
        /\ req[id].stage = "running" /\ req[id].awaiting
        /\ Step(req[id]).fn = "action.handler"
        /\ Tag(id) \in Range(req[id].args)
        /\ Tag(id) \in Range(req[id].auth) \/ variant = "koa"

-----------------------------------------------------------------------------
(* The metadata registry: the parameter decorators of one handler.  The    *)
(* compiler hands the decorators of a method's parameters to __decorate in *)
(* source order, and __decorate applies them from the last to the first.   *)

MaxParams == 3        \* parameters of the decorated handler
MaxDecorators == 2    \* decorators on one parameter

\* array.unshift(x)
Unshift(list, x) == <<x>> \o list

\* A registry that appends where the decorators insert at the front.
DefineResourceAppended(r, list, target, handler, entry) ==
    [r EXCEPT ![list][target][handler] = Append(@, entry)]

\* defineResourceArg / defineResourceResolver / defineResourceValidator: the
\* list kept under (key, target, handler), created empty, the entry unshifted
DefineResource(r, list, target, handler, entry) ==
    [r EXCEPT ![list][target][handler] = Unshift(@, entry)]

\* what the decorators pass on: @Param(name, true), @Query(name),
\* @Resolve(service, name), @Validate(service, name) on parameter `index`
ParameterDecorators == {"Param", "Query", "Resolve", "Validate"}
ListOf(d) ==
    CASE d.decorator \in {"Param", "Query"} -> "args"
      [] d.decorator = "Resolve" -> "resolvers"
      [] d.decorator = "Validate" -> "validators"
EntryOf(d) ==
    CASE d.decorator = "Param" ->
            [type |-> "param", index |-> d.index, name |-> d.name, required |-> TRUE]
      [] d.decorator = "Query" ->
            [type |-> "query", index |-> d.index, name |-> d.name, required |-> FALSE]
      [] d.decorator = "Resolve" ->
            [service |-> "S1", index |-> d.index, name |-> d.name, optional |-> FALSE]
      [] d.decorator = "Validate" ->
            [service |-> "S1", index |-> d.index, name |-> d.name]

\* the classes and methods that carry metadata
Targets == {"K1", "S1"}
HandlerNames == {"h", "g"}
EmptyRegistry ==
    [ applied |-> 0,
      args |-> [t \in Targets |-> [h \in HandlerNames |-> <<>>]],
      resolvers |-> [t \in Targets |-> [h \in HandlerNames |-> <<>>]],
      validators |-> [t \in Targets |-> [h \in HandlerNames |-> <<>>]] ]

\* the decorators of a signature in source order: parameter by parameter,
\* and on one parameter from left to right; every decorator has its own name
DecoratorNames == <<"a", "b", "c", "d", "e", "f", "g", "h", "i", "j", "k", "l">>
RECURSIVE Flatten(_, _, _)
Flatten(perParam, i, acc) ==
    IF i > Len(perParam) THEN acc
    ELSE Flatten(perParam, i + 1,
                 acc \o [k \in 1..Len(perParam[i]) |->
                           [ decorator |-> perParam[i][k], index |-> i - 1,
                             name |-> DecoratorNames[Len(acc) + k] ]])

Signatures ==
    UNION { [1..n -> SeqsUpTo(ParameterDecorators, MaxDecorators)] : n \in 1..MaxParams }

DecorConfigs ==
    { [target |-> t, handler |-> "h", decorators |-> Flatten(sig, 1, <<>>)] :
        t \in Targets, sig \in Signatures }

InitDecor ==
    /\ variant = "koa"
    /\ cfg \in DecorConfigs
    /\ app = EmptyApp
    /\ ret = NoRet
    /\ life = NoLife
    /\ req = NoReq
    /\ reg = EmptyRegistry

\* the decorator __decorate applies next: the last one not applied yet
NextDecorator == cfg.decorators[Len(cfg.decorators) - reg.applied]

\* __decorate applies one parameter decorator of the named list
Decorate(list) ==
    /\ reg.applied < Len(cfg.decorators)
    /\ ListOf(NextDecorator) = list
    /\ reg' = [DefineResource(reg, list, cfg.target, cfg.handler, EntryOf(NextDecorator))
                 EXCEPT !.applied = @ + 1]
    /\ UNCHANGED <<variant, cfg, app, ret, life, req>>

NextDecor ==
    \/ Decorate("args")
    \/ Decorate("resolvers")
    \/ Decorate("validators")

SpecDecor == InitDecor /\ [][NextDecor]_vars

\* the decorators of a list, in the order the source declares them
Declared(list) == SelectSeq(cfg.decorators, LAMBDA d : ListOf(d) = list)
NamesOf(seq) == [k \in 1..Len(seq) |-> seq[k].name]
MetadataLists == {"args", "resolvers", "validators"}

\* C14: once every parameter decorator of a handler has been applied (from
\* the last parameter to the first), each of the lists they accumulate -
\* arguments, resolvers, validators - iterates in source declaration order,
\* which is ascending parameter position.
C14_DeclarationOrder ==
    reg.applied = Len(cfg.decorators) =>
       \A list \in MetadataLists :
          LET got == reg[list][cfg.target][cfg.handler]
          IN /\ NamesOf(got) = NamesOf(Declared(list))
             /\ \A i, j \in 1..Len(got) : i < j => got[i].index <= got[j].index

\* three argument decorators on three parameters, all applied: A, B, C
C14_Witness ==
    /\ reg.applied = Len(cfg.decorators)
    /\ Len(reg["args"][cfg.target][cfg.handler]) = 3
    /\ NamesOf(reg["args"][cfg.target][cfg.handler]) = <<"a", "b", "c">>
    /\ reg["args"][cfg.target][cfg.handler][3].index = 2

\* the call arguments _handleRequestSource fills from a handler's argument
\* list when the request carries every key: args[argMetadata.index] = value
RECURSIVE Assigned(_, _, _)
Assigned(list, i, args) ==
    IF i > Len(list) THEN args
    ELSE Assigned(list, i + 1, SetAt(args, list[i].index, list[i].name))

ArgList == reg["args"][cfg.target][cfg.handler]

\* C34: after any sequence of argument bindings on one handler no two entries
\* of its argument list have the same index, and in the call arguments every
\* position that no binding addresses holds undefined.
C34_UniqueIndices ==
    /\ \A i, j \in 1..Len(ArgList) : i # j => ArgList[i].index # ArgList[j].index
    /\ \A k \in 1..Len(Assigned(ArgList, 1, <<>>)) :
          (\A i \in 1..Len(ArgList) : ArgList[i].index # k - 1)
             => Assigned(ArgList, 1, <<>>)[k] = Undef

-----------------------------------------------------------------------------
(* The method decorators @Before and @After of one action (koa variant):   *)
(* __decorate applies them from the last to the first, defineActionGeneric *)
(* collects them, and _bindGenerics turns each order into handlers.        *)

MaxMethodDecorators == 4    \* @Before / @After decorators on one action

\* AppRegistry.defineActionGeneric: action.generics.unshift({service, order, name})
DefineActionGeneric(r, order, name) ==
    [r EXCEPT !.generics = Unshift(@, [service |-> "S1", order |-> order, name |-> name])]

Orders == {"before", "after"}
NoGenerics ==
    [ applied |-> 0, generics |-> <<>>,
      bound |-> [o \in Orders |-> [done |-> FALSE, handlers |-> <<>>]] ]

\* the decorators above one method, in source order, each with its own name
HookConfigs ==
    { [ decorators |-> [k \in 1..Len(os) |-> [order |-> os[k], name |-> DecoratorNames[k]]] ] :
        os \in SeqsUpTo(Orders, MaxMethodDecorators) }

InitHooks ==
    /\ variant = "koa"
    /\ cfg \in HookConfigs
    /\ app = EmptyApp
    /\ ret = NoRet
    /\ life = NoLife
    /\ req = NoReq
    /\ reg = NoGenerics

\* __decorate applies the last method decorator not applied yet
DecorateMethod ==
    /\ reg.applied < Len(cfg.decorators)
    /\ reg' = [DefineActionGeneric(reg, NextDecorator.order, NextDecorator.name)
                 EXCEPT !.applied = @ + 1]
    /\ UNCHANGED <<variant, cfg, app, ret, life, req>>

\* _bindGenerics(order): the generics of that order, as it walks them
BindGenericsOf(order) ==
    /\ reg.applied = Len(cfg.decorators)
    /\ ~reg.bound[order].done
    /\ reg' = [reg EXCEPT !.bound[order] =
                  [ done |-> TRUE,
                    handlers |-> Walked(SelectSeq(reg.generics, LAMBDA m : m.order = order),
                                        order) ]]
    /\ UNCHANGED <<variant, cfg, app, ret, life, req>>

NextHooks ==
    \/ DecorateMethod
    \/ \E order \in Orders : BindGenericsOf(order)

SpecHooks == InitHooks /\ [][NextHooks]_vars

\* the hooks of an order as the source declares them, top to bottom
DeclaredHooks(order) == SelectSeq(cfg.decorators, LAMBDA d : d.order = order)

\* C28: the handlers _bindGenerics makes of an action's before-hooks, and
\* of its after-hooks, stand in the chain in declaration order: the hook
\* declared first runs first.
C28_HookOrder ==
    \A order \in Orders :
        reg.bound[order].done =>
           NamesOf(reg.bound[order].handlers) = NamesOf(DeclaredHooks(order))

-----------------------------------------------------------------------------
(* The metadata lists of two classes.  Every define* call of AppRegistry   *)
(* reads its list with Reflect.getMetadata, which looks at the class and   *)
(* then up its prototype chain, creates the list on the class when it got  *)
(* none, and adds the entry to the list it holds.                          *)

MaxDefines == 3    \* define* calls made in all

\* class X, declared after class Y, extends Y or does not
MetaClasses == {"X", "Y"}
Parent(c, cls) == IF cls = "X" /\ c.extends THEN "Y" ELSE None

\* ACTIONS, MIDDLEWARES under the class; RESOURCE_ARG, RESOURCE_RESOLVER,
\* RESOURCE_VALIDATOR under the class and one handler name
MetaKeys == {"actions", "middlewares", "args", "resolvers", "validators"}
NoMetadata == [defined |-> FALSE, list |-> <<>>]
EmptyMetadata ==
    [ own |-> [key \in MetaKeys |-> [cls \in MetaClasses |-> NoMetadata]],
      declared |-> {}, defines |-> 0, last |-> None ]

\* Reflect.getMetadata(key, cls): the class that holds the metadata found,
\* the class itself first, then the class it extends
Holder(r, c, key, cls) ==
    IF r.own[key][cls].defined THEN cls
    ELSE IF Parent(c, cls) # None /\ r.own[key][Parent(c, cls)].defined THEN Parent(c, cls)
    ELSE None

\* what the registry returns for a class
GetMetadata(r, c, key, cls) ==
    IF Holder(r, c, key, cls) = None THEN Undef ELSE r.own[key][Holder(r, c, key, cls)].list

\* defineAction and defineMiddleware push, the defineResource* calls unshift
AddEntry(key, list, entry) ==
    IF key \in {"actions", "middlewares"} THEN Append(list, entry) ELSE Unshift(list, entry)

\* let x = Reflect.getMetadata(KEY, target); if (x === undefined) { x = [];
\* Reflect.defineMetadata(KEY, x, target); }  x.push(entry) / x.unshift(entry)
DefineMetadata(r, c, key, target, entry) ==
    IF Holder(r, c, key, target) = None
    THEN [r EXCEPT !.own[key][target] = [defined |-> TRUE, list |-> <<entry>>]]
    ELSE [r EXCEPT !.own[key][Holder(r, c, key, target)].list = AddEntry(key, @, entry)]

MetaConfigs == { [extends |-> e] : e \in BOOLEAN }

InitMeta ==
    /\ variant = "koa"
    /\ cfg \in MetaConfigs
    /\ app = EmptyApp
    /\ ret = NoRet
    /\ life = NoLife
    /\ req = NoReq
    /\ reg = EmptyMetadata

\* the decorators of a class run while the class is declared, and a class is
\* declared after the class it extends
Declaring(cls) ==
    /\ cls \notin reg.declared
    /\ Parent(cfg, cls) # None => Parent(cfg, cls) \in reg.declared

\* a method or parameter decorator of class target calls define*
Define(key, target) ==
    /\ Declaring(target)
    /\ reg.defines < MaxDefines
    /\ reg' = [DefineMetadata(reg, cfg, key, target, [of |-> target, n |-> reg.defines])
                 EXCEPT !.defines = @ + 1, !.last = target]
    /\ UNCHANGED <<variant, cfg, app, ret, life, req>>

\* the declaration of the class ends
Declare(cls) ==
    /\ Declaring(cls)
    /\ reg' = [reg EXCEPT !.declared = @ \cup {cls}, !.last = cls]
    /\ UNCHANGED <<variant, cfg, app, ret, life, req>>

NextMeta ==
    \/ \E key \in MetaKeys : \E target \in MetaClasses : Define(key, target)
    \/ \E cls \in MetaClasses : Declare(cls)

SpecMeta == InitMeta /\ [][NextMeta]_vars

\* C33: metadata is keyed by class identity: a define* call on class X never
\* changes what the registry returns for a different class Y, also when X is
\* a subclass of Y.
C33_KeyedByIdentity ==
    [][ \A key \in MetaKeys : \A cls \in MetaClasses \ {reg'.last} :
           cls \in reg.declared =>
              GetMetadata(reg', cfg, key, cls) = GetMetadata(reg, cfg, key, cls) ]_vars

====
